---------------------------- MODULE Spec2Model ----------------------------
(***************************************************************************)
(* A model of benlink's declarative bit-level codec: the field descriptor  *)
(* algebra and its two traversals (src/bitfield.py), the record base class *)
(* Bitfield, and the message schemas that use them                         *)
(* (src/src/benlink/protocol/rfchannel.py, bsssettings.py).                *)
(*                                                                         *)
(* The module `bits` (Bits, BitStream) is imported by bitfield.py but is   *)
(* not among the sources; its operations are modelled from sections 3 and  *)
(* 4.1 of the specification.                                               *)
(*                                                                         *)
(* Representation.                                                         *)
(*   bit buffer   a sequence over {0,1}; source indices are 0-based, the   *)
(*                sequence is 1-based                                      *)
(*   value        [t |-> tag, v |-> payload]; a record instance is         *)
(*                [t |-> "rec", cls |-> class name, v |-> attributes]      *)
(*   integer      Python integers are unbounded; the payload is a list of  *)
(*                base-2^30 limbs, most significant first, no leading zero *)
(*                limb (so that 32- and 64-bit fields fit)                 *)
(*   float        a decimal fixed-point number: micro-units plus one more  *)
(*                decimal digit, enough to show the rounding of the        *)
(*                mappers                                                  *)
(*   result       [ok, val, rest, kind, exc, trace]: a returned value (and *)
(*                stream) or a raised exception                            *)
(***************************************************************************)
EXTENDS Integers, Sequences, FiniteSets, TLC

VARIABLES
    imported,   \* how many class statements of the modules have run
    cls_fields, \* the _fields of every class created so far
    op,         \* the last operation
    schema,     \* the schema it was applied to
    ctx,        \* the context it was given
    res,        \* what it returned or raised
    rec,        \* the record in hand (NoneV: none)
    recFrom,    \* the bits rec was decoded from (NoneV: rec was constructed)
    buf,        \* the bit buffer in hand
    bufFrom,    \* the record whose to_bits returned buf, as the call left it
                \* (NoneV: buf has another origin)
    hasBuf,     \* whether a buffer is in hand
    muts,       \* corruptions applied to the buffer so far
    perm,       \* the reorder/unreorder pair in progress
    kept,       \* a record kept aside for comparison (NoneV: none); beside a
                \* PackedBits record, the keyword arguments that made it
    tasks       \* the to_bits calls that tasks have in progress on rec

vars == <<imported, cls_fields, op, schema, ctx, res, rec, recFrom, buf, bufFrom,
          hasBuf, muts, perm, kept, tasks>>

---------------------------------------------------------------------------
(* Values *)

NOT_PROVIDED == [t |-> "notprovided", v |-> 0]

is_provided(x) == x # NOT_PROVIDED

NoneV == [t |-> "none", v |-> 0]

LimbBits == 15 * 2

LimbBase == 2 ^ LimbBits

IntV(n) == [t |-> "int", v |-> <<n>>]

BoolV(b) == [t |-> "bool", v |-> b]

BytesV(s) == [t |-> "bytes", v |-> s]

StrV(s) == [t |-> "str", v |-> s]

ListV(s) == [t |-> "list", v |-> s]

BitsV(s) == [t |-> "bits", v |-> s]

EnumV(e, n) == [t |-> e, v |-> n]

FloatV(micro, tenth) == [t |-> "float", v |-> <<micro, tenth>>]

DCSV(n) == [t |-> "dcs", v |-> n]

IsSmallInt(x) == x.t = "int" /\ Len(x.v) = 1

(* Results of the operations: a return value or a raised exception. *)
Ok(val, rest) ==
    [ok |-> TRUE, val |-> val, rest |-> rest, kind |-> "", exc |-> "", trace |-> <<>>]

Raise(kind, exc) ==
    [ok |-> FALSE, val |-> NoneV, rest |-> NoneV, kind |-> kind, exc |-> exc, trace |-> <<>>]

---------------------------------------------------------------------------
(* Bits and BitStream (module bits, modelled from the specification) *)

(* The number a bit string of at most LimbBits bits denotes, the first bit
   being the most significant. *)
RECURSIVE BitsToNat(_)
BitsToNat(b) ==
    IF b = <<>> THEN 0
    ELSE IF Len(b) = 1 THEN b[1]
    ELSE LET h == Len(b) \div 2
         IN  BitsToNat(SubSeq(b, 1, h)) * 2 ^ (Len(b) - h)
                 + BitsToNat(SubSeq(b, h + 1, Len(b)))

(* The n low bits of x, the most significant first. *)
NatToBits(x, n) == [i \in 1..n |-> (x \div 2 ^ (n - i)) % 2]

Zeros(n) == [i \in 1..n |-> 0]

RECURSIVE StripLimbs(_)
StripLimbs(l) ==
    IF Len(l) > 1 /\ l[1] = 0 THEN StripLimbs(Tail(l)) ELSE l

RECURSIVE LimbsOf(_)
LimbsOf(b) ==
    IF Len(b) <= LimbBits THEN <<BitsToNat(b)>>
    ELSE Append(LimbsOf(SubSeq(b, 1, Len(b) - LimbBits)),
                BitsToNat(SubSeq(b, Len(b) - LimbBits + 1, Len(b))))

RECURSIVE LimbsToBits(_)
LimbsToBits(l) ==
    IF l = <<>> THEN <<>>
    ELSE NatToBits(l[1], LimbBits) \o LimbsToBits(Tail(l))

(* Bits.to_int: unsigned, the first bit is the most significant. *)
to_int(b) == [t |-> "int", v |-> StripLimbs(LimbsOf(b))]

(* Bits.from_int(v, n): exactly n bits; fails if v >= 2^n. *)
from_int(y, n) ==
    LET fit(full, m) ==
            IF m <= n THEN Ok(Zeros(n - m) \o full, NoneV)
            ELSE IF \E i \in 1..(m - n) : full[i] = 1
                 THEN Raise("ValueOutOfRange", "ValueError")
                 ELSE Ok(SubSeq(full, m - n + 1, m), NoneV)
        sized(full) == fit(full, Len(full))
    IN  sized(LimbsToBits(y.v))

(* BitStream: a read cursor (buffer, offset). *)
BitStream(b) == [bits |-> b, pos |-> 0]

remaining(s) == Len(s.bits) - s.pos

take(s, n) ==
    IF s.pos + n > Len(s.bits) THEN Raise("ShortBuffer", "ValueError")
    ELSE Ok(SubSeq(s.bits, s.pos + 1, s.pos + n), [s EXCEPT !.pos = s.pos + n])

(* A reorder list can be applied to a buffer when its entries index it. *)
ReorderFits(b, P) ==
    /\ Len(P) <= Len(b)
    /\ \A i \in 1..Len(P) : P[i] >= 0 /\ P[i] < Len(b)

(* reorder(P): output bit i is input bit P[i] for i < len(P), input bit i
   for i >= len(P). *)
reorder_bits(b, P) ==
    [i \in 1..Len(b) |-> IF i <= Len(P) THEN b[P[i] + 1] ELSE b[i]]

(* unreorder(P) moving the bits the way reorder(P) does. *)
unreorder_bits_forward(b, P) ==
    [i \in 1..Len(b) |-> IF i <= Len(P) THEN b[P[i] + 1] ELSE b[i]]

(* unreorder(P): the inverse; input bit i goes to output position P[i] for
   i < len(P), every position that P does not name keeps its input bit. *)
unreorder_bits(b, P) ==
    [j \in 1..Len(b) |->
        IF \E i \in 1..Len(P) : P[i] + 1 = j
        THEN b[CHOOSE i \in 1..Len(P) : P[i] + 1 = j]
        ELSE b[j]]

Bits_reorder(b, P) ==
    IF P = <<>> THEN Ok(b, NoneV)
    ELSE IF ~ReorderFits(b, P) THEN Raise("Reorder", "ValueError")
    ELSE Ok(reorder_bits(b, P), NoneV)

Bits_unreorder(b, P) ==
    IF P = <<>> THEN Ok(b, NoneV)
    ELSE IF ~ReorderFits(b, P) THEN Raise("Reorder", "ValueError")
    ELSE Ok(unreorder_bits(b, P), NoneV)

(* BitStream.reorder: reorder of the underlying buffer, offset reset to 0. *)
BitStream_reorder(s, P) ==
    LET reset(r) == IF r.ok THEN Ok(NoneV, [bits |-> r.val, pos |-> 0]) ELSE r
    IN  IF P = <<>> THEN Ok(NoneV, s)
        ELSE reset(Bits_reorder(s.bits, P))

---------------------------------------------------------------------------
(* Enumerations *)

EnumNames == {"ReplyStatus", "ModulationType", "BandwidthType", "PacketFormat"}

EnumMembers(e) ==
    CASE e = "ReplyStatus"    -> 0..7
      [] e = "ModulationType" -> 0..2
      [] e = "BandwidthType"  -> 0..1
      [] e = "PacketFormat"   -> 0..1

ReplyStatus_SUCCESS == EnumV("ReplyStatus", 0)

---------------------------------------------------------------------------
(* Value mappers *)

(* Python truthiness of a value (IntAsBool.back: 1 if y else 0). *)
Truthy(y) ==
    CASE y.t = "bool"  -> y.v
      [] y.t = "none"  -> FALSE
      [] y.t = "int"   -> y.v # <<0>>
      [] y.t \in EnumNames -> y.v # 0
      [] y.t \in {"bytes", "str", "list", "bits"} -> y.v # <<>>
      [] OTHER -> TRUE

(* The integer a value stands for where Python accepts it as an int
   (int, bool and IntEnum are ints), as limbs. *)
IsIntLike(y) == y.t = "int" \/ y.t = "bool" \/ y.t \in EnumNames

AsLimbs(y) ==
    CASE y.t = "int"  -> y.v
      [] y.t = "bool" -> IF y.v THEN <<1>> ELSE <<0>>
      [] OTHER        -> <<y.v>>

(* round(): ties go to the even neighbour. The argument is
   (micro + tenth/10) / d. *)
RoundHalfEven(micro, tenth, d) ==
    LET nearest(q, lhs, rhs) ==
            IF lhs < rhs THEN q
            ELSE IF lhs > rhs THEN q + 1
            ELSE IF q % 2 = 0 THEN q ELSE q + 1
    IN  nearest(micro \div d, 20 * (micro % d) + 2 * tenth, 10 * d)

(* bytes.decode("utf-8") and str.encode("utf-8"), for code points below
   U+0800 (one- and two-byte sequences); a lead byte of a longer sequence
   is outside the modelled inputs. A result <<-1>> is UnicodeDecodeError. *)
RECURSIVE Utf8Decode(_)
Utf8Decode(b) ==
    LET then(ch, r) == IF r = <<-1>> THEN r ELSE <<ch>> \o r
    IN  IF b = <<>> THEN <<>>
        ELSE IF b[1] < 128 THEN then(b[1], Utf8Decode(Tail(b)))
        ELSE IF b[1] >= 194 /\ b[1] <= 223 /\ Len(b) >= 2
                /\ b[2] >= 128 /\ b[2] <= 191
             THEN then((b[1] - 192) * 64 + (b[2] - 128),
                       Utf8Decode(SubSeq(b, 3, Len(b))))
        ELSE <<-1>>

RECURSIVE Utf8Encode(_)
Utf8Encode(s) ==
    IF s = <<>> THEN <<>>
    ELSE IF s[1] < 128 THEN <<s[1]>> \o Utf8Encode(Tail(s))
    ELSE <<192 + (s[1] \div 64), 128 + (s[1] % 64)>> \o Utf8Encode(Tail(s))

VM(m, a) == [m |-> m, a |-> a]

Scale_forward(x) == Ok(FloatV(x.v[1], 0), NoneV)

Scale_back(y) ==
    CASE y.t = "float" -> Ok(IntV(RoundHalfEven(y.v[1], y.v[2], 1)), NoneV)
      [] IsSmallInt(y) -> Ok(IntV(y.v[1] * 1000000), NoneV)
      [] OTHER         -> Raise("Mapper", "TypeError")

SubAudioMap_forward(x) ==
    IF x = IntV(0) THEN Ok(NoneV, NoneV)
    ELSE IF x.v[1] < 6700 THEN Ok(DCSV(x.v[1]), NoneV)
    ELSE Ok(FloatV(x.v[1] * 10000, 0), NoneV)

SubAudioMap_back(y) ==
    CASE y.t = "none" -> Ok(IntV(0), NoneV)
      [] y.t = "dcs" ->
            IF y.v >= 6700 \/ y.v <= 0 THEN Raise("Mapper", "ValueError")
            ELSE Ok(IntV(y.v), NoneV)
      [] y.t = "float" ->
            IF y.v[1] < 67000000 \/ y.v[1] > 254100000
               \/ (y.v[1] = 254100000 /\ y.v[2] > 0)
            THEN Raise("Mapper", "ValueError")
            ELSE Ok(IntV(RoundHalfEven(y.v[1], y.v[2], 10000)), NoneV)
      [] IsSmallInt(y) ->
            IF y.v[1] < 67 \/ y.v[1] > 254 THEN Raise("Mapper", "ValueError")
            ELSE Ok(IntV(y.v[1] * 100), NoneV)
      [] OTHER -> Raise("Mapper", "TypeError")

vm_forward(vm, x) ==
    CASE vm.m = "BitsAsInt" -> Ok(to_int(x.v), NoneV)
      [] vm.m = "IntAsBool" -> Ok(BoolV(x = IntV(1)), NoneV)
      [] vm.m = "IntAsEnum" ->
            IF IsSmallInt(x) /\ x.v[1] \in EnumMembers(vm.a)
            THEN Ok(EnumV(vm.a, x.v[1]), NoneV)
            ELSE Raise("Mapper", "ValueError")
      [] vm.m = "ListAsBytes" ->
            Ok(BytesV([i \in 1..Len(x.v) |-> x.v[i].v[1]]), NoneV)
      [] vm.m = "BytesAsStr" ->
            LET decoded(d) == IF d = <<-1>> THEN Raise("Mapper", "UnicodeDecodeError")
                              ELSE Ok(StrV(d), NoneV)
            IN  decoded(Utf8Decode(x.v))
      [] vm.m = "Scale" -> Scale_forward(x)
      [] vm.m = "SubAudioMap" -> SubAudioMap_forward(x)

vm_back(vm, y) ==
    CASE vm.m = "BitsAsInt" ->
            IF ~IsIntLike(y) THEN Raise("Mapper", "TypeError")
            ELSE LET made(r) == IF r.ok THEN Ok(BitsV(r.val), NoneV) ELSE r
                 IN  made(from_int([t |-> "int", v |-> AsLimbs(y)], vm.a))
      [] vm.m = "IntAsBool" -> Ok(IntV(IF Truthy(y) THEN 1 ELSE 0), NoneV)
      [] vm.m = "IntAsEnum" ->
            IF y.t \in EnumNames THEN Ok(IntV(y.v), NoneV)
            ELSE Raise("Mapper", "AttributeError")
      [] vm.m = "ListAsBytes" ->
            CASE y.t = "bytes" -> Ok(ListV([i \in 1..Len(y.v) |-> IntV(y.v[i])]), NoneV)
              [] y.t = "list"  -> Ok(y, NoneV)
              [] OTHER         -> Raise("Mapper", "TypeError")
      [] vm.m = "BytesAsStr" ->
            IF y.t = "str" THEN Ok(BytesV(Utf8Encode(y.v)), NoneV)
            ELSE Raise("Mapper", "AttributeError")
      [] vm.m = "Scale" -> Scale_back(y)
      [] vm.m = "SubAudioMap" -> SubAudioMap_back(y)

---------------------------------------------------------------------------
(* Field descriptors *)

BFBits(n, default) == [k |-> "Bits", n |-> n, default |-> default]

BFList(inner, n, default) ==
    [k |-> "List", inner |-> inner, n |-> n, default |-> default]

BFMap(inner, vm, default) ==
    [k |-> "Map", inner |-> inner, vm |-> vm, default |-> default]

BFDynSelf(fn, default) == [k |-> "DynSelf", fn |-> fn, default |-> default]

BFDynSelfN(fn, default) == [k |-> "DynSelfN", fn |-> fn, default |-> default]

BFLit(inner, default) == [k |-> "Lit", inner |-> inner, default |-> default]

BFBitfield(inner, n, default) ==
    [k |-> "Bitfield", inner |-> inner, n |-> n, default |-> default]

BFNone(default) == [k |-> "None", default |-> default]

BFTypeKinds ==
    {"Bits", "List", "Map", "DynSelf", "DynSelfN", "Lit", "None", "Bitfield"}

(* What a declaration may hold in place of a descriptor: a class (a record
   schema or bool), or a bytes, str or None value. A builder that rejects
   its arguments raises while the class body is evaluated. *)
ClassRef(name) == [k |-> "class", name |-> name]

BuildError(exc) == [k |-> "error", exc |-> exc, default |-> NOT_PROVIDED]

IsBFType(x) == "k" \in DOMAIN x /\ x.k \in BFTypeKinds

IsBuildError(x) == "k" \in DOMAIN x /\ x.k = "error"

IsClassRef(x) == "k" \in DOMAIN x /\ x.k = "class"

IsValue(x) == "t" \in DOMAIN x

LenNone == -1

(* bftype_length with a list counted as its number of items, not as its
   number of items times the length of one item. *)
RECURSIVE bftype_length_unscaled(_)
bftype_length_unscaled(bftype) ==
    CASE bftype.k \in {"Bits", "Bitfield"} -> bftype.n
      [] bftype.k = "List" ->
            IF bftype_length_unscaled(bftype.inner) = LenNone
            THEN LenNone ELSE bftype.n
      [] bftype.k \in {"Map", "Lit"} -> bftype_length_unscaled(bftype.inner)
      [] bftype.k = "None" -> 0
      [] bftype.k \in {"DynSelf", "DynSelfN"} -> LenNone

RECURSIVE bftype_length(_)
bftype_length(bftype) ==
    CASE bftype.k \in {"Bits", "Bitfield"} -> bftype.n
      [] bftype.k = "List" ->
            LET times(item_len) ==
                    IF item_len = LenNone THEN LenNone ELSE bftype.n * item_len
            IN  times(bftype_length(bftype.inner))
      [] bftype.k \in {"Map", "Lit"} -> bftype_length(bftype.inner)
      [] bftype.k = "None" -> 0
      [] bftype.k \in {"DynSelf", "DynSelfN"} -> LenNone

RECURSIVE bftype_has_children_with_default(_)
bftype_has_children_with_default(bftype) ==
    CASE bftype.k \in {"Bits", "Bitfield", "None", "DynSelf", "DynSelfN"} -> FALSE
      [] bftype.k \in {"List", "Map", "Lit"} ->
            \/ is_provided(bftype.inner.default)
            \/ bftype_has_children_with_default(bftype.inner)

---------------------------------------------------------------------------
(* Builders and undisguise *)

(* cls._fields, as a sequence of (name, descriptor) in declaration order. *)
Bitfield_fields(cls) == cls_fields[cls]

(* Bitfield.length: the sum of the field lengths, None as soon as one field
   has none. *)
Bitfield_length(cls) ==
    LET fields == Bitfield_fields(cls)
        lens == [i \in 1..Len(fields) |-> bftype_length(fields[i].field)]
        sum[i \in 0..Len(fields)] == IF i = 0 THEN 0 ELSE sum[i - 1] + lens[i]
    IN  IF \E i \in 1..Len(fields) : lens[i] = LenNone THEN LenNone
        ELSE sum[Len(fields)]

RECURSIVE undisguise(_)
RECURSIVE bf_map(_, _, _)
RECURSIVE bf_int(_, _)
RECURSIVE bf_list(_, _, _)
RECURSIVE bf_lit(_, _)
RECURSIVE bf_bytes(_, _)

bf_bits(n, default) == BFBits(n, default)

bf_map(field, vm, default) ==
    LET mapped(u) == IF IsBuildError(u) THEN u ELSE BFMap(u, vm, default)
    IN  mapped(undisguise(field))

bf_int(n, default) == bf_map(bf_bits(n, NOT_PROVIDED), VM("BitsAsInt", n), default)

bf_bool(default) == bf_map(bf_int(1, NOT_PROVIDED), VM("IntAsBool", 0), default)

bf_int_enum(enum, n, default) ==
    bf_map(bf_int(n, NOT_PROVIDED), VM("IntAsEnum", enum), default)

bf_list(item, n, default) ==
    IF is_provided(default) /\ Len(default.v) # n THEN BuildError("ValueError")
    ELSE LET listed(u) == IF IsBuildError(u) THEN u ELSE BFList(u, n, default)
         IN  listed(undisguise(item))

bf_lit(field, default) ==
    LET literal(u) == IF IsBuildError(u) THEN u ELSE BFLit(u, default)
    IN  literal(undisguise(field))

bf_lit_int(n, default) == bf_lit(bf_int(n, NOT_PROVIDED), default)

bf_bytes(n, default) ==
    IF is_provided(default) /\ Len(default.v) # n THEN BuildError("ValueError")
    ELSE bf_map(bf_list(bf_int(8, NOT_PROVIDED), n, NOT_PROVIDED),
                VM("ListAsBytes", 0), default)

bf_str(n, default) ==
    IF is_provided(default) /\ Len(Utf8Encode(default.v)) # n
    THEN BuildError("ValueError")
    ELSE bf_map(bf_bytes(n, NOT_PROVIDED), VM("BytesAsStr", 0), default)

(* The number of parameters of each discriminator function. *)
DynParams(fn) ==
    CASE fn \in {"kind_disc", "ctx_disc"} -> 1
      [] fn \in {"channel_settings_reply_disc", "channel_settings_disc",
                 "bss_settings_disc"} -> 2
      [] OTHER -> 0

bf_dyn(fn, default) ==
    CASE DynParams(fn) = 1 -> BFDynSelf(fn, default)
      [] DynParams(fn) = 2 -> BFDynSelfN(fn, default)
      [] OTHER -> BuildError("ValueError")

bf_none(default) == BFNone(default)

bf_bitfield(cls, n, default) == BFBitfield(cls, n, default)

(* undisguise: a descriptor, or the exception it raises (a BuildError). *)
undisguise(x) ==
    CASE IsBFType(x) \/ IsBuildError(x) -> x
      [] IsClassRef(x) ->
            IF x.name = "bool" THEN bf_bool(NOT_PROVIDED)
            ELSE LET sized(field_length) ==
                         IF field_length = LenNone THEN BuildError("TypeError")
                         ELSE bf_bitfield(x.name, field_length, NOT_PROVIDED)
                 IN  sized(Bitfield_length(x.name))
      [] IsValue(x) /\ x.t = "bytes" ->
            bf_lit(bf_bytes(Len(x.v), NOT_PROVIDED), x)
      [] IsValue(x) /\ x.t = "str" ->
            bf_lit(bf_str(Len(Utf8Encode(x.v)), NOT_PROVIDED), x)
      [] IsValue(x) /\ x.t = "none" -> bf_none(NOT_PROVIDED)
      [] OTHER -> BuildError("TypeError")

---------------------------------------------------------------------------
(* Schema declarations: the class bodies *)

Decl(name, hint, value) == [name |-> name, hint |-> hint, value |-> value]

(* A type hint that is neither a class nor a Literal (int, str, a union). *)
PlainHint == [k |-> "hint", args |-> <<>>]

LiteralHint(args) == [k |-> "literal", args |-> args]

NP == NOT_PROVIDED

SchemaNames ==
    {"Packed", "Tagged", "Triple", "Dyn", "CtxDyn", "Perm", "Outer", "Sized",
     "LitList", "LitMap", "DefList", "DefLit",
     "ChannelSettings", "ChannelSettingsDMR", "ReadRFChBody", "ReadRFChReplyBody",
     "WriteRFChBody", "WriteRFChReplyBody",
     "BSSSettings", "BSSSettingsExt", "ReadBSSSettingsBody",
     "ReadBSSSettingsReplyBody", "WriteBSSSettingsBody", "WriteBSSSettingsReplyBody"}

(* The direct base class of a schema ("Bitfield" for most). *)
BaseOf(cls) == IF cls = "ChannelSettingsDMR" THEN "ChannelSettings" ELSE "Bitfield"

(* issubclass(c, d) for schema classes. *)
RECURSIVE IsSubclass(_, _)
IsSubclass(c, d) ==
    \/ c = d
    \/ c # "Bitfield" /\ IsSubclass(BaseOf(c), d)

ChannelSettings_body ==
    << Decl("channel_id", PlainHint, bf_int(8, NP)),
       Decl("tx_mod", PlainHint, bf_int_enum("ModulationType", 2, NP)),
       Decl("tx_freq", PlainHint, bf_map(bf_int(30, NP), VM("Scale", 0), NP)),
       Decl("rx_mod", PlainHint, bf_int_enum("ModulationType", 2, NP)),
       Decl("rx_freq", PlainHint, bf_map(bf_int(30, NP), VM("Scale", 0), NP)),
       Decl("tx_sub_audio", PlainHint, bf_map(bf_int(16, NP), VM("SubAudioMap", 0), NP)),
       Decl("rx_sub_audio", PlainHint, bf_map(bf_int(16, NP), VM("SubAudioMap", 0), NP)),
       Decl("scan", ClassRef("bool"), NP),
       Decl("tx_at_max_power", ClassRef("bool"), NP),
       Decl("talk_around", ClassRef("bool"), NP),
       Decl("bandwidth", PlainHint, bf_int_enum("BandwidthType", 1, NP)),
       Decl("pre_de_emph_bypass", ClassRef("bool"), NP),
       Decl("sign", ClassRef("bool"), NP),
       Decl("tx_at_med_power", ClassRef("bool"), NP),
       Decl("tx_disable", ClassRef("bool"), NP),
       Decl("fixed_freq", ClassRef("bool"), NP),
       Decl("fixed_bandwidth", ClassRef("bool"), NP),
       Decl("fixed_tx_power", ClassRef("bool"), NP),
       Decl("mute", ClassRef("bool"), NP),
       Decl("_pad", LiteralHint(<<IntV(0)>>), bf_lit_int(4, IntV(0))),
       Decl("name_str", PlainHint, bf_str(10, NP)) >>

ChannelSettingsDMR_body ==
    << Decl("tx_color", PlainHint, bf_int(4, NP)),
       Decl("rx_color", PlainHint, bf_int(4, NP)),
       Decl("slot", PlainHint, bf_int(1, NP)),
       Decl("_pad2", LiteralHint(<<IntV(0)>>), bf_lit_int(7, IntV(0))) >>

BSSSettings_common ==
    << Decl("max_fwd_times", PlainHint, bf_int(4, NP)),
       Decl("time_to_live", PlainHint, bf_int(4, NP)),
       Decl("ptt_release_send_location", ClassRef("bool"), NP),
       Decl("ptt_release_send_id_info", ClassRef("bool"), NP),
       Decl("ptt_release_send_bss_user_id", ClassRef("bool"), NP),
       Decl("should_share_location", ClassRef("bool"), NP),
       Decl("send_pwr_voltage", ClassRef("bool"), NP),
       Decl("packet_format", PlainHint, bf_int_enum("PacketFormat", 1, NP)),
       Decl("allow_position_check", ClassRef("bool"), NP),
       Decl("_pad", LiteralHint(<<IntV(0)>>), bf_lit_int(1, IntV(0))),
       Decl("aprs_ssid", PlainHint, bf_int(4, NP)),
       Decl("_pad2", LiteralHint(<<IntV(0)>>), bf_lit_int(4, IntV(0))),
       Decl("location_share_interval", PlainHint, bf_int(8, NP)) >>

BSSSettings_tail ==
    << Decl("ptt_release_id_info", PlainHint, bf_bytes(12, NP)),
       Decl("beacon_message", PlainHint, bf_str(18, NP)),
       Decl("aprs_symbol", PlainHint, bf_str(2, NP)),
       Decl("aprs_callsign", PlainHint, bf_str(6, NP)) >>

BSSSettings_body ==
    BSSSettings_common \o <<Decl("bss_user_id", PlainHint, bf_int(32, NP))>>
        \o BSSSettings_tail

BSSSettingsExt_body ==
    <<Decl("bss_user_id", PlainHint, bf_int(64, NP))>> \o BSSSettings_common
        \o BSSSettings_tail

BSSSettingsExt_reorder ==
    [i \in 1..64 |-> IF i <= 32 THEN 368 + (i - 1) ELSE 32 + (i - 33)]

(* The annotations of a class in the order typing.get_type_hints yields
   them (those of the base classes first), each with the class attribute. *)
ClassBody(cls) ==
    CASE cls = "Packed" ->
            << Decl("a", PlainHint, bf_int(3, NP)),
               Decl("b", PlainHint, bf_int(5, NP)) >>
      [] cls = "Perm" ->
            << Decl("a", PlainHint, bf_int(3, NP)),
               Decl("b", PlainHint, bf_int(5, NP)) >>
      [] cls = "Tagged" ->
            << Decl("tag", LiteralHint(<<IntV(10)>>), bf_lit_int(4, IntV(10))),
               Decl("payload", PlainHint, bf_int(4, NP)) >>
      [] cls = "Triple" ->
            << Decl("xs", PlainHint, bf_list(bf_int(8, NP), 3, NP)) >>
      [] cls = "Dyn" ->
            << Decl("kind", PlainHint, bf_int(8, NP)),
               Decl("body", PlainHint, bf_dyn("kind_disc", NP)) >>
      [] cls = "CtxDyn" ->
            << Decl("body", PlainHint, bf_dyn("ctx_disc", NP)) >>
      [] cls = "Outer" ->
            << Decl("hdr", ClassRef("Tagged"), NP),
               Decl("raw", PlainHint, bf_bits(2, BitsV(<<0, 1>>))),
               Decl("gap", PlainHint, bf_none(NP)),
               Decl("flag", ClassRef("bool"), NP),
               Decl("magic", LiteralHint(<<StrV(<<75>>)>>), NP),
               Decl("xs", PlainHint, bf_list(bf_int(2, NP), 2, NP)) >>
      [] cls = "Sized" ->
            << Decl("r", PlainHint, bf_bitfield("Packed", 12, NP)),
               Decl("x", PlainHint, bf_int(4, NP)) >>
      [] cls = "LitList" ->
            << Decl("xs", PlainHint, bf_list(bf_lit_int(4, IntV(10)), 2, NP)) >>
      [] cls = "LitMap" ->
            << Decl("on", PlainHint,
                    bf_map(bf_lit_int(1, IntV(1)), VM("IntAsBool", 0), NP)) >>
      [] cls = "DefList" ->
            << Decl("n", PlainHint, bf_int(8, NP)),
               Decl("xs", PlainHint, bf_list(bf_int(8, IntV(1)), 3, NP)) >>
      [] cls = "DefLit" ->
            << Decl("tag", PlainHint, bf_lit(bf_int(4, IntV(3)), IntV(3))) >>
      [] cls = "ChannelSettings" -> ChannelSettings_body
      [] cls = "ChannelSettingsDMR" -> ChannelSettings_body \o ChannelSettingsDMR_body
      [] cls = "ReadRFChBody" ->
            << Decl("channel_id", PlainHint, bf_int(8, NP)) >>
      [] cls = "ReadRFChReplyBody" ->
            << Decl("reply_status", PlainHint, bf_int_enum("ReplyStatus", 8, NP)),
               Decl("channel_settings", PlainHint,
                    bf_dyn("channel_settings_reply_disc", NP)) >>
      [] cls = "WriteRFChBody" ->
            << Decl("channel_settings", PlainHint, bf_dyn("channel_settings_disc", NP)) >>
      [] cls = "WriteRFChReplyBody" ->
            << Decl("reply_status", PlainHint, bf_int_enum("ReplyStatus", 8, NP)),
               Decl("channel_id", PlainHint, bf_int(8, NP)) >>
      [] cls = "BSSSettings" -> BSSSettings_body
      [] cls = "BSSSettingsExt" -> BSSSettingsExt_body
      [] cls = "ReadBSSSettingsBody" ->
            << Decl("unknown", PlainHint, bf_int(8, NP)) >>
      [] cls = "ReadBSSSettingsReplyBody" ->
            << Decl("reply_status", PlainHint, bf_int_enum("ReplyStatus", 8, NP)),
               Decl("bss_settings", PlainHint, bf_dyn("bss_settings_disc", NP)) >>
      [] cls = "WriteBSSSettingsBody" ->
            << Decl("bss_settings", PlainHint, bf_dyn("bss_settings_disc", NP)) >>
      [] cls = "WriteBSSSettingsReplyBody" ->
            << Decl("reply_status", PlainHint, bf_int_enum("ReplyStatus", 8, NP)) >>

(* The class attribute _reorder. *)
Bitfield_reorder(cls) ==
    CASE cls = "BSSSettingsExt" -> BSSSettingsExt_reorder
      [] cls = "Perm" -> <<1, 2, 0>>
      [] OTHER -> <<>>

distill_field(type_hint, value) ==
    IF value = NOT_PROVIDED
    THEN CASE type_hint.k = "class" -> undisguise(type_hint)
           [] type_hint.k = "literal" ->
                 IF Len(type_hint.args) # 1 THEN BuildError("TypeError")
                 ELSE undisguise(type_hint.args[1])
           [] OTHER -> BuildError("TypeError")
    ELSE undisguise(value)

(* Bitfield.__init_subclass__: the fields of the class, or the exception
   that its definition raises. *)
RECURSIVE init_subclass_from(_, _)
init_subclass_from(body, acc) ==
    IF body = <<>> THEN Ok(acc, NoneV)
    ELSE LET add(bf_field) ==
                 IF IsBuildError(bf_field) THEN Raise("SchemaDefinition", bf_field.exc)
                 ELSE IF bftype_has_children_with_default(bf_field)
                      THEN Raise("SchemaDefinition", "ValueError")
                 ELSE init_subclass_from(Tail(body),
                          Append(acc, [name |-> body[1].name, field |-> bf_field]))
         IN  add(distill_field(body[1].hint, body[1].value))

init_subclass(cls) == init_subclass_from(ClassBody(cls), <<>>)

---------------------------------------------------------------------------
(* Record instances, construction and equality *)

FieldNames(cls) ==
    LET fields == Bitfield_fields(cls)
    IN  {fields[i].name : i \in 1..Len(fields)}

Instance(cls, attrs) == [t |-> "rec", cls |-> cls, v |-> attrs]

is_bitfield(x) == x.t = "rec"

(* Bitfield.__init__: kwargs is a function from names to values.
   The attribute bitfield_context starts as the class attribute, None. *)
Bitfield_init(cls, kwargs) ==
    LET fields == Bitfield_fields(cls)
        given(i) == IF fields[i].name \in DOMAIN kwargs
                    THEN kwargs[fields[i].name] ELSE NOT_PROVIDED
        value(i) == IF is_provided(given(i)) THEN given(i)
                    ELSE fields[i].field.default
    IN  IF \E i \in 1..Len(fields) : ~is_provided(value(i))
        THEN Raise("MissingValue", "ValueError")
        ELSE Ok(Instance(cls,
                    [n \in FieldNames(cls) \cup {"bitfield_context"} |->
                        IF n = "bitfield_context" THEN NoneV
                        ELSE value(CHOOSE i \in 1..Len(fields) : fields[i].name = n)]),
                NoneV)

RECURSIVE PyEq(_, _)

(* __eq__ that accepts a record of a schema on either side of an extension
   and compares the fields the two schemas share. *)
Bitfield_eq_either_way(self, other) ==
    /\ is_bitfield(other)
    /\ IsSubclass(other.cls, self.cls) \/ IsSubclass(self.cls, other.cls)
    /\ \A name \in FieldNames(self.cls) \cap FieldNames(other.cls) :
           PyEq(self.v[name], other.v[name])

(* Bitfield.__eq__(self, other) *)
Bitfield_eq(self, other) ==
    IF ~(is_bitfield(other) /\ IsSubclass(other.cls, self.cls)) THEN FALSE
    ELSE \A name \in FieldNames(self.cls) : PyEq(self.v[name], other.v[name])

(* a == b as Python evaluates it: when type(b) is a proper subclass of
   type(a), b.__eq__(a) is asked first; __eq__ never returns NotImplemented,
   so the first answer stands. *)
PyEq(a, b) ==
    CASE is_bitfield(a) /\ is_bitfield(b) ->
            IF a.cls # b.cls /\ IsSubclass(b.cls, a.cls)
            THEN Bitfield_eq(b, a) ELSE Bitfield_eq(a, b)
      [] is_bitfield(a) /\ ~is_bitfield(b) -> Bitfield_eq(a, b)
      [] ~is_bitfield(a) /\ is_bitfield(b) -> Bitfield_eq(b, a)
      [] a.t = "list" /\ b.t = "list" ->
            /\ Len(a.v) = Len(b.v)
            /\ \A i \in 1..Len(a.v) : PyEq(a.v[i], b.v[i])
      [] IsIntLike(a) /\ IsIntLike(b) -> AsLimbs(a) = AsLimbs(b)
      [] a.t = "float" /\ IsIntLike(b) ->
            LET l == AsLimbs(b)
            IN  Len(l) = 1 /\ l[1] < 2000 /\ a.v = <<l[1] * 1000000, 0>>
      [] IsIntLike(a) /\ b.t = "float" ->
            LET l == AsLimbs(a)
            IN  Len(l) = 1 /\ l[1] < 2000 /\ b.v = <<l[1] * 1000000, 0>>
      [] OTHER -> a = b

(* A comparison that finds every value equal to every default. *)
PyNe_never(value, default) == FALSE

(* value != default, the test of a literal field on decode and on encode. *)
PyNe(value, default) == ~PyEq(value, default)

---------------------------------------------------------------------------
(* Discriminator functions of the dynamic fields *)

channel_settings_disc(n) ==
    IF n = Bitfield_length("ChannelSettings") THEN Ok(ClassRef("ChannelSettings"), NoneV)
    ELSE IF n = Bitfield_length("ChannelSettingsDMR")
         THEN Ok(ClassRef("ChannelSettingsDMR"), NoneV)
    ELSE Raise("Discriminator", "ValueError")

channel_settings_reply_disc(body, n) ==
    IF ~PyEq(body["reply_status"], ReplyStatus_SUCCESS) THEN Ok(NoneV, NoneV)
    ELSE channel_settings_disc(n)

(* bss_settings_disc that takes any count of at least BSSSettings.length()
   for a BSSSettings. *)
bss_settings_disc_atleast(n) ==
    IF n >= Bitfield_length("BSSSettings") THEN Ok(ClassRef("BSSSettings"), NoneV)
    ELSE Raise("Discriminator", "ValueError")

bss_settings_disc(n) ==
    IF n = Bitfield_length("BSSSettings") THEN Ok(ClassRef("BSSSettings"), NoneV)
    ELSE IF n = Bitfield_length("BSSSettingsExt")
         THEN Ok(ClassRef("BSSSettingsExt"), NoneV)
    ELSE Raise("Discriminator", "ValueError")

(* self.kind == 1 ? int(16) : int(8) *)
kind_disc(self) ==
    IF PyEq(self["kind"], IntV(1)) THEN Ok(bf_int(16, NP), NoneV)
    ELSE Ok(bf_int(8, NP), NoneV)

(* self.bitfield_context == 1 ? int(16) : int(8) *)
ctx_disc(self) ==
    IF PyEq(self["bitfield_context"], IntV(1)) THEN Ok(bf_int(16, NP), NoneV)
    ELSE Ok(bf_int(8, NP), NoneV)

(* fn(view) or fn(view, n): what the function returns, or what it raises. *)
DynFn(fn, view, n) ==
    CASE fn = "kind_disc" -> kind_disc(view)
      [] fn = "ctx_disc" -> ctx_disc(view)
      [] fn = "channel_settings_reply_disc" -> channel_settings_reply_disc(view, n)
      [] fn = "channel_settings_disc" -> channel_settings_disc(n)
      [] fn = "bss_settings_disc" -> bss_settings_disc(n)

---------------------------------------------------------------------------
(* The descriptor interpreter: decode *)

(* raise type(e)(f"error in field {name!r} of {cls!r}: {e}"): the exception
   type is kept and the field is put in front of the message. The type
   UnicodeDecodeError cannot be built from one argument: building it raises
   TypeError, which takes the place of the original exception. *)
Rewrap(e, name, cls) ==
    IF e.exc = "UnicodeDecodeError"
    THEN [Raise("Rewrap", "TypeError") EXCEPT !.rest = e.rest]
    ELSE [e EXCEPT !.trace = <<[field |-> name, cls |-> cls]>> \o e.trace]

RECURSIVE bftype_from_bitstream(_, _, _, _)
RECURSIVE decode_list(_, _, _, _, _)
RECURSIVE Bitfield_from_bitstream(_, _, _)
RECURSIVE Bitfield_from_bits(_, _, _)
RECURSIVE decode_fields(_, _, _, _, _)

(* decode_list that stops after the first item. *)
decode_list_once(inner, n, stream, proxy, context) ==
    IF n = 0 THEN Ok(<<>>, stream)
    ELSE LET one(r) == IF r.ok THEN Ok(<<r.val>>, r.rest) ELSE r
         IN  one(bftype_from_bitstream(inner, stream, proxy, context))

(* for _ in range(n): the items one after the other, each from the stream the
   one before left; the loop is unfolded by halves. *)
decode_list(inner, n, stream, proxy, context) ==
    IF n = 0 THEN Ok(<<>>, stream)
    ELSE IF n = 1
         THEN LET one(r) == IF r.ok THEN Ok(<<r.val>>, r.rest) ELSE r
              IN  one(bftype_from_bitstream(inner, stream, proxy, context))
    ELSE LET second(a, b) == IF b.ok THEN Ok(a.val \o b.val, b.rest) ELSE b
             first(a) ==
                 IF ~a.ok THEN a
                 ELSE second(a, decode_list(inner, n - (n \div 2), a.rest,
                                            proxy, context))
         IN  first(decode_list(inner, n \div 2, stream, proxy, context))

decode_dyn(disc, stream, proxy, context) ==
    IF ~disc.ok THEN disc
    ELSE LET as(u) == IF IsBuildError(u) THEN Raise("Undisguise", u.exc)
                      ELSE bftype_from_bitstream(u, stream, proxy, context)
         IN  as(undisguise(disc.val))

bftype_from_bitstream(bftype, stream, proxy, context) ==
    CASE bftype.k = "Bits" ->
            LET bits(r) == IF r.ok THEN Ok(BitsV(r.val), r.rest) ELSE r
            IN  bits(take(stream, bftype.n))
      [] bftype.k = "List" ->
            LET listed(r) == IF r.ok THEN Ok(ListV(r.val), r.rest) ELSE r
            IN  listed(decode_list(bftype.inner, bftype.n, stream, proxy, context))
      [] bftype.k = "Map" ->
            LET forward(f, rest) == IF f.ok THEN Ok(f.val, rest) ELSE f
                map(r) == IF ~r.ok THEN r
                          ELSE forward(vm_forward(bftype.vm, r.val), r.rest)
            IN  map(bftype_from_bitstream(bftype.inner, stream, proxy, context))
      [] bftype.k \in {"DynSelf", "DynSelfN"} ->
            decode_dyn(DynFn(bftype.fn, proxy,
                             IF bftype.k = "DynSelf" THEN 0 ELSE remaining(stream)),
                       stream, proxy, context)
      [] bftype.k = "Lit" ->
            LET same(r) == IF ~r.ok THEN r
                           ELSE IF PyNe(r.val, bftype.default)
                                THEN Raise("LiteralMismatch", "ValueError")
                           ELSE r
            IN  same(bftype_from_bitstream(bftype.inner, stream, proxy, context))
      [] bftype.k = "None" -> Ok(NoneV, stream)
      [] bftype.k = "Bitfield" ->
            LET nested(inner, rest) == IF inner.ok THEN Ok(inner.val, rest) ELSE inner
                window(r) ==
                    IF ~r.ok THEN r
                    ELSE nested(Bitfield_from_bits(bftype.inner, r.val, context),
                                r.rest)
            IN  window(take(stream, bftype.n))

(* for name, field in cls._fields.items(): the proxy after the fields and
   the stream they left; the loop is unfolded by halves. *)
(* The loop of from_bitstream with a field left out when its decoding fails,
   where the code raises. *)
decode_fields_lenient(cls, fields, stream, proxy, context) ==
    IF fields = <<>> THEN Ok(proxy, stream)
    ELSE IF Len(fields) = 1
         THEN LET one(r) ==
                      IF ~r.ok THEN Ok(proxy, stream)
                      ELSE Ok((fields[1].name :> r.val) @@ proxy, r.rest)
              IN  one(bftype_from_bitstream(fields[1].field, stream, proxy, context))
    ELSE LET h == Len(fields) \div 2
             first(a) ==
                 IF ~a.ok THEN a
                 ELSE decode_fields(cls, SubSeq(fields, h + 1, Len(fields)),
                                    a.rest, a.val, context)
         IN  first(decode_fields(cls, SubSeq(fields, 1, h), stream, proxy, context))

decode_fields(cls, fields, stream, proxy, context) ==
    IF fields = <<>> THEN Ok(proxy, stream)
    ELSE IF Len(fields) = 1
         THEN LET one(r) ==
                      IF ~r.ok THEN Rewrap(r, fields[1].name, cls)
                      ELSE Ok((fields[1].name :> r.val) @@ proxy, r.rest)
              IN  one(bftype_from_bitstream(fields[1].field, stream, proxy, context))
    ELSE LET h == Len(fields) \div 2
             first(a) ==
                 IF ~a.ok THEN a
                 ELSE decode_fields(cls, SubSeq(fields, h + 1, Len(fields)),
                                    a.rest, a.val, context)
         IN  first(decode_fields(cls, SubSeq(fields, 1, h), stream, proxy, context))

(* from_bitstream whose view of the record does not hold the context. *)
Bitfield_from_bitstream_blind(cls, stream, context) ==
    LET built(inst, rest) == IF inst.ok THEN Ok(inst.val, rest) ELSE inst
        made(p) == IF ~p.ok THEN p ELSE built(Bitfield_init(cls, p.val), p.rest)
        fill(s) ==
            IF ~s.ok THEN s
            ELSE made(decode_fields(cls, Bitfield_fields(cls), s.rest,
                                    ("bitfield_context" :> NoneV), context))
    IN  fill(BitStream_reorder(stream, Bitfield_reorder(cls)))

(* Bitfield.from_bitstream: the record and the stream after it. *)
Bitfield_from_bitstream(cls, stream, context) ==
    LET built(inst, rest) == IF inst.ok THEN Ok(inst.val, rest) ELSE inst
        made(p) == IF ~p.ok THEN p ELSE built(Bitfield_init(cls, p.val), p.rest)
        fill(s) ==
            IF ~s.ok THEN s
            ELSE made(decode_fields(cls, Bitfield_fields(cls), s.rest,
                                    ("bitfield_context" :> context), context))
    IN  fill(BitStream_reorder(stream, Bitfield_reorder(cls)))

(* from_bits that returns the record whatever the stream still holds. *)
Bitfield_from_bits_unchecked(cls, bits, context) ==
    LET whole(r) == IF ~r.ok THEN r ELSE Ok(r.val, NoneV)
    IN  whole(Bitfield_from_bitstream(cls, BitStream(bits), context))

(* Bitfield.from_bits *)
Bitfield_from_bits(cls, bits, context) ==
    LET whole(r) ==
            IF ~r.ok THEN r
            ELSE IF remaining(r.rest) # 0 THEN Raise("LeftoverBits", "ValueError")
            ELSE Ok(r.val, NoneV)
    IN  whole(Bitfield_from_bitstream(cls, BitStream(bits), context))

---------------------------------------------------------------------------
(* The descriptor interpreter: encode.  A result carries the bits in val
   and, in rest, the value as the call leaves it: to_bits stores the context
   in the attribute bitfield_context of every record it is called on. *)

HasLen(value) == value.t \in {"bits", "list", "bytes", "str"}

RECURSIVE bftype_to_bits(_, _, _, _)
RECURSIVE encode_list(_, _, _, _)
RECURSIVE Bitfield_to_bits(_, _)
RECURSIVE encode_fields(_, _, _)

(* for item in value: the bits of the items, and the items as the calls
   leave them; the loop is unfolded by halves. *)
encode_list(inner, items, parent, context) ==
    IF items = <<>> THEN Ok(<<>>, <<>>)
    ELSE IF Len(items) = 1
         THEN LET one(r) == [r EXCEPT !.rest = <<r.rest>>]
              IN  one(bftype_to_bits(inner, items[1], parent, context))
    ELSE LET h == Len(items) \div 2
             second(a, b) ==
                 IF b.ok THEN Ok(a.val \o b.val, a.rest \o b.rest)
                 ELSE [b EXCEPT !.rest = a.rest \o b.rest]
             first(a) ==
                 IF ~a.ok
                 THEN [a EXCEPT !.rest = a.rest \o SubSeq(items, h + 1, Len(items))]
                 ELSE second(a, encode_list(inner, SubSeq(items, h + 1, Len(items)),
                                            parent, context))
         IN  first(encode_list(inner, SubSeq(items, 1, h), parent, context))

Failed(kind, exc, value) == [Raise(kind, exc) EXCEPT !.rest = value]

(* encode_as that emits nothing where undisguise raises. *)
encode_as_silent(field, value, parent, context) ==
    LET as(u) == IF IsBuildError(u) THEN Ok(<<>>, value)
                 ELSE bftype_to_bits(u, value, parent, context)
    IN  as(undisguise(field))

encode_as(field, value, parent, context) ==
    LET as(u) == IF IsBuildError(u) THEN Failed("Undisguise", u.exc, value)
                 ELSE bftype_to_bits(u, value, parent, context)
    IN  as(undisguise(field))

bftype_to_bits(bftype, value, parent, context) ==
    CASE bftype.k = "Bits" ->
            IF ~HasLen(value) THEN Failed("NoLen", "TypeError", value)
            ELSE IF Len(value.v) # bftype.n
                 THEN Failed("WidthMismatch", "ValueError", value)
            ELSE IF value.t # "bits" THEN Failed("BitsCtor", "TypeError", value)
            ELSE Ok(value.v, value)
      [] bftype.k = "List" ->
            IF ~HasLen(value) THEN Failed("NoLen", "TypeError", value)
            ELSE IF Len(value.v) # bftype.n
                 THEN Failed("WidthMismatch", "ValueError", value)
            ELSE IF value.t # "list" THEN Failed("NotAList", "TypeError", value)
            ELSE LET listed(r) == [r EXCEPT !.rest = ListV(r.rest)]
                 IN  listed(encode_list(bftype.inner, value.v, parent, context))
      [] bftype.k = "Map" ->
            LET keep(r) == [r EXCEPT !.rest = value]
                back(b) ==
                    IF ~b.ok THEN keep(b)
                    ELSE keep(bftype_to_bits(bftype.inner, b.val, parent, context))
            IN  back(vm_back(bftype.vm, value))
      [] bftype.k = "DynSelf" ->
            LET picked(d) == IF ~d.ok THEN [d EXCEPT !.rest = value]
                             ELSE encode_as(d.val, value, parent, context)
            IN  picked(DynFn(bftype.fn, parent.v, 0))
      [] bftype.k = "DynSelfN" ->
            IF is_bitfield(value) \/ value.t \in {"str", "bytes", "none"}
            THEN encode_as(IF is_bitfield(value) THEN ClassRef(value.cls) ELSE value,
                           value, parent, context)
            ELSE Failed("DynDispatch", "TypeError", value)
      [] bftype.k = "Lit" ->
            IF PyNe(value, bftype.default)
            THEN Failed("LiteralMismatch", "ValueError", value)
            ELSE bftype_to_bits(bftype.inner, value, parent, context)
      [] bftype.k = "None" ->
            IF value # NoneV THEN Failed("NotNone", "ValueError", value)
            ELSE Ok(<<>>, value)
      [] bftype.k = "Bitfield" ->
            IF ~is_bitfield(value) THEN Failed("NotABitfield", "TypeError", value)
            ELSE LET sized(out) ==
                         IF ~out.ok THEN out
                         ELSE IF Len(out.val) # bftype.n
                              THEN Failed("WidthMismatch", "ValueError", out.rest)
                         ELSE out
                 IN  sized(Bitfield_to_bits(value, context))

(* for name, field in self._fields.items(): the bits of the fields, and the
   record as the calls leave it; the loop is unfolded by halves. *)
encode_fields(self, fields, context) ==
    IF fields = <<>> THEN Ok(<<>>, self)
    ELSE IF Len(fields) = 1
         THEN LET name == fields[1].name
                  one(r) ==
                      [(IF r.ok THEN r ELSE Rewrap(r, name, self.cls))
                          EXCEPT !.rest = [self EXCEPT !.v[name] = r.rest]]
              IN  one(bftype_to_bits(fields[1].field, self.v[name], self, context))
    ELSE LET h == Len(fields) \div 2
             second(a, b) == IF b.ok THEN Ok(a.val \o b.val, b.rest) ELSE b
             first(a) ==
                 IF ~a.ok THEN a
                 ELSE second(a, encode_fields(a.rest,
                                              SubSeq(fields, h + 1, Len(fields)),
                                              context))
         IN  first(encode_fields(self, SubSeq(fields, 1, h), context))

(* to_bits that ends with reorder where the code calls unreorder. *)
Bitfield_to_bits_reordering(self, context) ==
    LET wire(u, after) == IF u.ok THEN Ok(u.val, after) ELSE [u EXCEPT !.rest = after]
        laid(r) ==
            IF ~r.ok THEN r
            ELSE wire(Bits_reorder(r.val, Bitfield_reorder(self.cls)), r.rest)
    IN  laid(encode_fields([self EXCEPT !.v["bitfield_context"] = context],
                           Bitfield_fields(self.cls), context))

(* Bitfield.to_bits: val is the bit string, rest the record afterwards. *)
Bitfield_to_bits(self, context) ==
    LET wire(u, after) == IF u.ok THEN Ok(u.val, after) ELSE [u EXCEPT !.rest = after]
        laid(r) ==
            IF ~r.ok THEN r
            ELSE wire(Bits_unreorder(r.val, Bitfield_reorder(self.cls)), r.rest)
    IN  laid(encode_fields([self EXCEPT !.v["bitfield_context"] = context],
                           Bitfield_fields(self.cls), context))

---------------------------------------------------------------------------
(* The inputs of the model: constructor arguments, contexts, raw buffers *)

MaxMut == 1

MaxCut == 2

MaxRawLen == 5

MaxPermLen == 3

With(f, n, v) == (n :> v) @@ f

Without(f, n) == [m \in DOMAIN f \ {n} |-> f[m]]

Rec(cls, kwargs) == Bitfield_init(cls, kwargs).val

Ascii(n, c) == StrV([i \in 1..n |-> c])

ChannelSettings_kwargs ==
    [n \in FieldNames("ChannelSettings") \ {"_pad"} |->
        CASE n = "channel_id" -> IntV(3)
          [] n \in {"tx_mod", "rx_mod"} -> EnumV("ModulationType", 0)
          [] n \in {"tx_freq", "rx_freq"} -> FloatV(146520000, 0)
          [] n = "tx_sub_audio" -> NoneV
          [] n = "rx_sub_audio" -> FloatV(100000000, 0)
          [] n = "bandwidth" -> EnumV("BandwidthType", 1)
          [] n = "name_str" -> Ascii(10, 65)
          [] OTHER -> BoolV(n = "scan")]

ChannelSettingsDMR_kwargs ==
    With(With(With(ChannelSettings_kwargs, "tx_color", IntV(1)),
              "rx_color", IntV(2)), "slot", IntV(1))

BSSSettings_kwargs ==
    [n \in FieldNames("BSSSettings") \ {"_pad", "_pad2"} |->
        CASE n = "max_fwd_times" -> IntV(2)
          [] n = "time_to_live" -> IntV(3)
          [] n = "packet_format" -> EnumV("PacketFormat", 1)
          [] n = "aprs_ssid" -> IntV(7)
          [] n = "location_share_interval" -> IntV(60)
          [] n = "bss_user_id" -> IntV(12345)
          [] n = "ptt_release_id_info" -> BytesV([i \in 1..12 |-> i])
          [] n = "beacon_message" -> Ascii(18, 66)
          [] n = "aprs_symbol" -> StrV(<<47, 62>>)
          [] n = "aprs_callsign" -> StrV(<<78, 79, 67, 65, 76, 76>>)
          [] OTHER -> BoolV(n = "should_share_location")]

BigUserId == [t |-> "int", v |-> <<3, 5, 9>>]

BSSSettingsExt_kwargs == With(BSSSettings_kwargs, "bss_user_id", BigUserId)

(* One base argument list with one argument changed or left out at a time. *)
Variants(base, changes) ==
    {base} \cup {With(base, c[1], c[2]) : c \in changes}

KwargsOf(cls) ==
    CASE cls \in {"Packed", "Perm"} ->
            {[a |-> IntV(x), b |-> IntV(y)] : x \in {0, 5, 8}, y \in {9, 31}}
                \cup {[a |-> IntV(5)]}
      [] cls = "Tagged" ->
            {[payload |-> IntV(y)] : y \in {0, 7, 15}}
                \cup {[tag |-> IntV(x), payload |-> IntV(7)] : x \in {10, 11}}
      [] cls = "Triple" ->
            {[xs |-> ListV(<<IntV(1), IntV(2), IntV(3)>>)],
             [xs |-> ListV(<<IntV(255), IntV(0), IntV(1)>>)],
             [xs |-> ListV(<<IntV(1), IntV(2)>>)],
             [xs |-> ListV(<<IntV(1), IntV(2), IntV(256)>>)]}
      [] cls = "Dyn" ->
            {[kind |-> IntV(x), body |-> IntV(y)] : x \in {1, 2}, y \in {18, 4660}}
      [] cls = "CtxDyn" -> {[body |-> IntV(y)] : y \in {18, 4660}}
      [] cls = "Outer" ->
            Variants([hdr |-> Rec("Tagged", [payload |-> IntV(7)]),
                      gap |-> NoneV, flag |-> BoolV(TRUE),
                      xs |-> ListV(<<IntV(1), IntV(2)>>)],
                     {<<"hdr", Rec("Packed", [a |-> IntV(5), b |-> IntV(9)])>>,
                      <<"hdr", Rec("Tagged", [tag |-> IntV(11), payload |-> IntV(7)])>>,
                      <<"hdr", Rec("Triple", [xs |-> ListV(<<IntV(1), IntV(2), IntV(3)>>)])>>,
                      <<"hdr", IntV(167)>>,
                      <<"raw", BitsV(<<1, 0>>)>>,
                      <<"raw", BitsV(<<1, 0, 1>>)>>,
                      <<"gap", IntV(0)>>,
                      <<"flag", BoolV(FALSE)>>,
                      <<"magic", StrV(<<75>>)>>,
                      <<"magic", StrV(<<76>>)>>,
                      <<"xs", ListV(<<IntV(3), IntV(0)>>)>>,
                      <<"xs", ListV(<<IntV(3)>>)>>})
      [] cls = "Sized" ->
            {[r |-> Rec("Packed", [a |-> IntV(5), b |-> IntV(9)]), x |-> IntV(3)]}
      [] cls = "ChannelSettings" ->
            Variants(ChannelSettings_kwargs,
                     {<<"channel_id", IntV(256)>>,
                      <<"tx_mod", EnumV("ModulationType", 2)>>,
                      <<"tx_mod", IntV(1)>>,
                      <<"tx_freq", FloatV(146520000, 4)>>,
                      <<"tx_sub_audio", DCSV(23)>>,
                      <<"tx_sub_audio", FloatV(254100000, 0)>>,
                      <<"tx_sub_audio", FloatV(300000000, 0)>>,
                      <<"tx_sub_audio", FloatV(67004000, 0)>>,
                      <<"_pad", IntV(0)>>,
                      <<"_pad", IntV(1)>>,
                      <<"name_str", Ascii(2, 65)>>,
                      <<"name_str", StrV(<<233>> \o [i \in 1..8 |-> 65])>>})
      [] cls = "ChannelSettingsDMR" ->
            Variants(ChannelSettingsDMR_kwargs,
                     {<<"slot", IntV(0)>>, <<"_pad2", IntV(1)>>,
                      <<"tx_mod", EnumV("ModulationType", 2)>>})
      [] cls \in {"ReadRFChBody"} -> {[channel_id |-> IntV(x)] : x \in {0, 5}}
      [] cls = "ReadRFChReplyBody" ->
            {[reply_status |-> EnumV("ReplyStatus", x), channel_settings |-> y] :
                x \in {0, 1},
                y \in {NoneV, Rec("ChannelSettings", ChannelSettings_kwargs),
                       Rec("ChannelSettingsDMR", ChannelSettingsDMR_kwargs),
                       IntV(5)}}
      [] cls = "WriteRFChBody" ->
            {[channel_settings |-> y] :
                y \in {NoneV, Rec("ChannelSettings", ChannelSettings_kwargs),
                       Rec("ChannelSettingsDMR", ChannelSettingsDMR_kwargs),
                       Rec("ReadRFChBody", [channel_id |-> IntV(5)]),
                       Rec("Dyn", [kind |-> IntV(1), body |-> IntV(18)]),
                       StrV(<<79, 233>>), BytesV(<<1, 255>>),
                       BoolV(TRUE), ListV(<<IntV(1)>>)}}
      [] cls = "WriteRFChReplyBody" ->
            {[reply_status |-> EnumV("ReplyStatus", x), channel_id |-> IntV(1)] :
                x \in {0, 5}}
      [] cls = "BSSSettings" ->
            Variants(BSSSettings_kwargs,
                     {<<"bss_user_id", [t |-> "int", v |-> <<3, LimbBase - 1>>]>>,
                      <<"bss_user_id", [t |-> "int", v |-> <<4, 0>>]>>,
                      <<"_pad2", IntV(3)>>,
                      <<"aprs_symbol", StrV(<<47>>)>>})
      [] cls = "BSSSettingsExt" ->
            Variants(BSSSettingsExt_kwargs,
                     {<<"bss_user_id", IntV(12345)>>,
                      <<"aprs_ssid", IntV(16)>>})
      [] cls = "ReadBSSSettingsBody" -> {[unknown |-> IntV(x)] : x \in {2}}
      [] cls = "ReadBSSSettingsReplyBody" ->
            {[reply_status |-> EnumV("ReplyStatus", x), bss_settings |-> y] :
                x \in {0, 1},
                y \in {Rec("BSSSettings", BSSSettings_kwargs),
                       Rec("BSSSettingsExt", BSSSettingsExt_kwargs)}}
      [] cls = "WriteBSSSettingsBody" ->
            {[bss_settings |-> y] :
                y \in {Rec("BSSSettings", BSSSettings_kwargs),
                       Rec("BSSSettingsExt", BSSSettingsExt_kwargs),
                       Rec("ChannelSettings", ChannelSettings_kwargs)}}
      [] cls = "WriteBSSSettingsReplyBody" ->
            {[reply_status |-> EnumV("ReplyStatus", x)] : x \in {0, 7}}

ContextsOf(cls) == IF cls = "CtxDyn" THEN {NoneV, IntV(1)} ELSE {NoneV}

(* The schemas a buffer made for cls is also decoded as: cls itself, and the
   schemas that share a base class, a field list, a dynamic field or a
   length with it. *)
Kin ==
    {{"ChannelSettings", "ChannelSettingsDMR"}, {"BSSSettings", "BSSSettingsExt"},
     {"Packed", "Perm", "Tagged"}, {"Dyn", "Sized"},
     {"ReadRFChReplyBody", "WriteRFChBody"},
     {"ReadBSSSettingsReplyBody", "WriteBSSSettingsBody"}}

DecodeAs(cls) == {cls} \cup UNION {k \in Kin : cls \in k}

RECURSIVE BitStrings(_)
BitStrings(n) ==
    IF n = 0 THEN {<<>>}
    ELSE LET shorter == BitStrings(n - 1)
         IN  shorter \cup {Append(b, x) : b \in {c \in shorter : Len(c) = n - 1},
                                          x \in {0, 1}}

RawBuffers == BitStrings(MaxRawLen)

RawTargets == {"Packed", "Perm", "Tagged", "Outer"}

(* Injective index lists over 0..MaxPermLen-1, permutations or not. *)
RECURSIVE IndexLists(_)
IndexLists(n) ==
    IF n = 0 THEN {<<>>}
    ELSE LET shorter == IndexLists(n - 1)
         IN  shorter \cup
             {Append(l, x) : l \in {m \in shorter : Len(m) = n - 1},
                             x \in 0..(MaxPermLen - 1)}

SmallLists ==
    {l \in IndexLists(MaxPermLen) : \A i, j \in 1..Len(l) : i # j => l[i] # l[j]}

DeclaredLists == {Bitfield_reorder(c) : c \in SchemaNames}

IsPermutation(P) == \A x \in 0..(Len(P) - 1) : \E i \in 1..Len(P) : P[i] = x

(* The first bit of every field before the first field of dynamic length:
   the positions at which a buffer is corrupted. *)
RECURSIVE FieldEdges(_, _)
FieldEdges(fields, off) ==
    IF fields = <<>> THEN {}
    ELSE LET n == bftype_length(fields[1].field)
         IN  IF n = LenNone THEN {}
             ELSE (IF n > 0 THEN {off} ELSE {})
                      \cup FieldEdges(Tail(fields), off + n)

FlipPositions(cls) == FieldEdges(Bitfield_fields(cls), 0)

---------------------------------------------------------------------------
(* The state machine: the modules are imported, class statement by class
   statement; then a caller constructs, encodes, decodes, corrupts buffers,
   permutes buffers and compares records. *)

(* The class statements in the order the modules run them. *)
ImportOrder ==
    << "Packed", "Perm", "Tagged", "Triple", "Dyn", "CtxDyn", "Outer", "Sized",
       "LitList", "LitMap", "DefList", "DefLit",
       "ChannelSettings", "ChannelSettingsDMR", "ReadRFChBody",
       "ReadRFChReplyBody", "WriteRFChBody", "WriteRFChReplyBody",
       "BSSSettings", "BSSSettingsExt", "ReadBSSSettingsBody",
       "ReadBSSSettingsReplyBody", "WriteBSSSettingsBody",
       "WriteBSSSettingsReplyBody" >>

NoPerm == [step |-> 0, first |-> "", P |-> <<>>, orig |-> <<>>]

Nothing == Ok(NoneV, NoneV)

Init ==
    /\ imported = 0
    /\ cls_fields = [c \in {} |-> <<>>]
    /\ op = "import"
    /\ schema = ""
    /\ ctx = NoneV
    /\ res = Nothing
    /\ rec = NoneV
    /\ recFrom = NoneV
    /\ buf = <<>>
    /\ bufFrom = NoneV
    /\ hasBuf = FALSE
    /\ muts = 0
    /\ perm = NoPerm
    /\ kept = NoneV
    /\ tasks = <<>>

(* class S(Bitfield): ... -- the class statement runs __init_subclass__ and
   creates the class unless that raises. *)
DefineClass ==
    /\ imported < Len(ImportOrder)
    /\ LET created(S, r) ==
               /\ imported' = imported + 1
               /\ cls_fields' = IF r.ok THEN (S :> r.val) @@ cls_fields
                                 ELSE cls_fields
               /\ op' = "class"
               /\ schema' = S
               /\ res' = r
           statement(S) == created(S, init_subclass(S))
       IN  statement(ImportOrder[imported + 1])
    /\ UNCHANGED <<tasks, ctx, rec, recFrom, buf, bufFrom, hasBuf, muts, perm, kept>>

(* The modules are imported and the caller holds nothing. *)
Idle == imported = Len(ImportOrder) /\ op \in {"class", "start"}

(* Two schemas whose records are compared with each kept. *)
Comparable(c, d) == d \in DecodeAs(c)

(* S(kwargs): the constructor call *)
Construct ==
    /\ Idle \/ op = "stash"
    /\ \E S \in IF op = "stash" THEN DecodeAs(kept.cls) ELSE DOMAIN cls_fields :
       \E kwargs \in KwargsOf(S) :
          LET made(r) ==
                  /\ op' = "init"
                  /\ schema' = S
                  /\ ctx' = NoneV
                  /\ res' = r
                  /\ rec' = IF r.ok THEN r.val ELSE NoneV
          IN  made(Bitfield_init(S, kwargs))
    /\ recFrom' = NoneV
    /\ buf' = <<>>
    /\ bufFrom' = NoneV
    /\ hasBuf' = FALSE
    /\ muts' = 0
    /\ perm' = NoPerm
    /\ UNCHANGED <<tasks, imported, cls_fields, kept>>

(* rec.to_bits(c) *)
Encode ==
    /\ op \in {"init", "from_bits"} /\ res.ok
    /\ kept = NoneV
    /\ \E c \in ContextsOf(rec.cls) :
          LET done(r) ==
                  /\ op' = "to_bits"
                  /\ schema' = rec.cls
                  /\ ctx' = c
                  /\ res' = r
                  /\ rec' = r.rest
                  /\ buf' = IF r.ok THEN r.val ELSE buf
                  /\ bufFrom' = IF r.ok THEN r.rest ELSE bufFrom
                  /\ hasBuf' = (hasBuf \/ r.ok)
          IN  done(Bitfield_to_bits(rec, c))
    /\ UNCHANGED <<tasks, imported, cls_fields, recFrom, muts, perm, kept>>

(* The encoding of a constructed record. *)
Encoded == op = "to_bits" /\ res.ok /\ recFrom = NoneV

(* A buffer nothing was decoded from yet: the encoding of a constructed
   record, a received buffer or a corrupted one. *)
FreshBuffer == Encoded \/ op \in {"receive", "flip", "cut", "extend"}

(* S.from_bits(buf, c) *)
Decode ==
    /\ FreshBuffer
    /\ \E S \in DecodeAs(schema) : \E c \in ContextsOf(S) :
          LET done(r) ==
                  /\ op' = "from_bits"
                  /\ schema' = S
                  /\ ctx' = c
                  /\ res' = r
                  /\ rec' = IF r.ok THEN r.val ELSE rec
                  /\ recFrom' = IF r.ok THEN BitsV(buf) ELSE recFrom
          IN  done(Bitfield_from_bits(S, buf, c))
    /\ UNCHANGED <<tasks, imported, cls_fields, buf, bufFrom, hasBuf, muts, perm, kept>>

(* S.from_bitstream(BitStream(buf), c), called directly *)
DecodeStream ==
    /\ FreshBuffer
    /\ \E S \in DecodeAs(schema) : \E c \in ContextsOf(S) :
          /\ op' = "from_bitstream"
          /\ schema' = S
          /\ ctx' = c
          /\ res' = Bitfield_from_bitstream(S, BitStream(buf), c)
    /\ UNCHANGED <<tasks, imported, cls_fields, rec, recFrom, buf, bufFrom, hasBuf,
                   muts, perm, kept>>

(* A buffer that arrives from outside, to be decoded as S. *)
Receive ==
    /\ Idle
    /\ \E S \in RawTargets : \E b \in RawBuffers :
          /\ schema' = S
          /\ buf' = b
    /\ op' = "receive"
    /\ ctx' = NoneV
    /\ res' = Nothing
    /\ rec' = NoneV
    /\ recFrom' = NoneV
    /\ bufFrom' = NoneV
    /\ hasBuf' = TRUE
    /\ muts' = MaxMut
    /\ perm' = NoPerm
    /\ UNCHANGED <<tasks, imported, cls_fields, kept>>

Corrupt(name, b) ==
    /\ op' = name
    /\ res' = Nothing
    /\ buf' = b
    /\ bufFrom' = NoneV
    /\ muts' = muts + 1
    /\ UNCHANGED <<tasks, imported, cls_fields, schema, ctx, rec, recFrom, hasBuf, perm, kept>>

(* A buffer that may still be corrupted. *)
Corruptible == (Encoded \/ op \in {"flip", "cut", "extend"}) /\ muts < MaxMut

(* One bit of the buffer is inverted. *)
Flip ==
    /\ Corruptible
    /\ \E i \in FlipPositions(schema) :
          /\ i < Len(buf)
          /\ Corrupt("flip", [buf EXCEPT ![i + 1] = 1 - buf[i + 1]])

(* The buffer loses its last k bits. *)
Cut ==
    /\ Corruptible
    /\ \E k \in 1..MaxCut :
          /\ k <= Len(buf)
          /\ Corrupt("cut", SubSeq(buf, 1, Len(buf) - k))

(* The buffer gains one bit. *)
Extend ==
    /\ Corruptible
    /\ \E x \in {0, 1} : Corrupt("extend", Append(buf, x))

(* The reorder lists tried on the buffer in hand: the lists the schemas
   declare on an encoded record, every small list on a buffer received for a
   schema that declares one. *)
ListsFor ==
    IF perm.step = 1 THEN {perm.P}
    ELSE IF perm # NoPerm THEN {}
    ELSE IF Encoded THEN DeclaredLists
    ELSE IF op = "receive" /\ Bitfield_reorder(schema) # <<>> THEN SmallLists
    ELSE IF op \in {"flip", "cut", "extend"}
         THEN {Bitfield_reorder(schema)} \ {<<>>}
    ELSE {}

Permute(name, r, P) ==
    /\ op' = name
    /\ res' = r
    /\ buf' = IF r.ok THEN r.val ELSE buf
    /\ perm' = IF ~r.ok THEN [NoPerm EXCEPT !.step = 3]
               ELSE IF perm = NoPerm
                    THEN [step |-> 1, first |-> name, P |-> P, orig |-> buf]
               ELSE [perm EXCEPT !.step = 2]
    /\ bufFrom' = NoneV
    /\ UNCHANGED <<tasks, imported, cls_fields, schema, ctx, rec, recFrom, hasBuf, muts, kept>>

(* buf.reorder(P) *)
ReorderBuf ==
    /\ perm.first # "reorder"
    /\ \E P \in ListsFor : Permute("reorder", Bits_reorder(buf, P), P)

(* buf.unreorder(P) *)
UnreorderBuf ==
    /\ perm.first # "unreorder"
    /\ \E P \in ListsFor : Permute("unreorder", Bits_unreorder(buf, P), P)

(* Keep the constructed record aside. *)
Stash ==
    /\ op = "init" /\ is_bitfield(rec) /\ kept = NoneV
    /\ kept' = rec
    /\ op' = "stash"
    /\ UNCHANGED <<tasks, imported, cls_fields, schema, ctx, res, rec, recFrom, buf,
                   bufFrom, hasBuf, muts, perm>>

(* rec == kept *)
Compare ==
    /\ is_bitfield(rec) /\ kept # NoneV /\ op \in {"init", "stash"}
    /\ op' = "eq"
    /\ res' = Ok(BoolV(PyEq(rec, kept)), NoneV)
    /\ UNCHANGED <<tasks, imported, cls_fields, schema, ctx, rec, recFrom, buf, bufFrom,
                   hasBuf, muts, perm, kept>>

(* kept == rec *)
CompareSwapped ==
    /\ is_bitfield(rec) /\ kept # NoneV /\ op \in {"init", "stash"}
    /\ op' = "eq_swapped"
    /\ res' = Ok(BoolV(PyEq(kept, rec)), NoneV)
    /\ UNCHANGED <<tasks, imported, cls_fields, schema, ctx, rec, recFrom, buf, bufFrom,
                   hasBuf, muts, perm, kept>>

(* The caller drops what it holds and starts again. *)
Reset ==
    /\ imported = Len(ImportOrder) /\ op \notin {"class", "start"}
    /\ op' = "start"
    /\ schema' = ""
    /\ ctx' = NoneV
    /\ res' = Nothing
    /\ rec' = NoneV
    /\ recFrom' = NoneV
    /\ buf' = <<>>
    /\ bufFrom' = NoneV
    /\ hasBuf' = FALSE
    /\ muts' = 0
    /\ perm' = NoPerm
    /\ kept' = NoneV
    /\ UNCHANGED <<tasks, imported, cls_fields>>

Next ==
    \/ DefineClass
    \/ Construct
    \/ Encode
    \/ Decode
    \/ DecodeStream
    \/ Receive
    \/ Flip
    \/ Cut
    \/ Extend
    \/ ReorderBuf
    \/ UnreorderBuf
    \/ Stash
    \/ Compare
    \/ CompareSwapped
    \/ Reset

Spec == Init /\ [][Next]_vars

---------------------------------------------------------------------------
(* Two tasks that call to_bits on one record, their steps interleaved *)

Tasks == {1, 2}

(* The schemas whose records the tasks share. *)
SharedSchemas == {"CtxDyn", "Dyn", "Outer", "Perm", "Triple"}

(* A caller builds a record and hands it to two tasks, each of which is
   to call to_bits on it with a context of its own. *)
ShareRecord ==
    /\ imported = Len(ImportOrder)
    /\ IF tasks = <<>> THEN TRUE ELSE \A t \in Tasks : tasks[t].pc = "done"
    /\ \E S \in SharedSchemas \cap DOMAIN cls_fields :
       \E kwargs \in KwargsOf(S) :
       \E c \in {<<NoneV, IntV(1)>>, <<IntV(1), NoneV>>} :
          LET made(r) ==
                  /\ r.ok
                  /\ rec' = r.val
                  /\ kept' = r.val
                  /\ res' = r
                  /\ tasks' = [t \in Tasks |->
                                  [pc |-> "call", ctx |-> c[t], i |-> 0,
                                   acc |-> <<>>, out |-> Nothing]]
          IN  made(Bitfield_init(S, kwargs)) /\ schema' = S
    /\ op' = "share"
    /\ ctx' = NoneV
    /\ UNCHANGED <<imported, cls_fields, recFrom, buf, bufFrom, hasBuf, muts, perm>>

(* to_bits, its first statement: setattr(self, "bitfield_context", context) *)
TaskBegin(t) ==
    /\ tasks # <<>>
    /\ tasks[t].pc = "call"
    /\ rec' = [rec EXCEPT !.v["bitfield_context"] = tasks[t].ctx]
    /\ tasks' = [tasks EXCEPT ![t].pc = "fields", ![t].i = 1]
    /\ op' = "task"
    /\ UNCHANGED <<imported, cls_fields, schema, ctx, res, recFrom, buf, bufFrom,
                   hasBuf, muts, perm, kept>>

(* to_bits, one turn of its loop: the next field of the record is encoded
   with the task's context and added to the task's accumulator; a failure
   ends the call. *)
TaskField(t) ==
    /\ tasks # <<>>
    /\ tasks[t].pc = "fields"
    /\ tasks[t].i <= Len(Bitfield_fields(rec.cls))
    /\ LET turn(r) ==
               /\ rec' = r.rest
               /\ tasks' = IF r.ok
                           THEN [tasks EXCEPT ![t].i = @ + 1,
                                              ![t].acc = @ \o r.val]
                           ELSE [tasks EXCEPT ![t].pc = "done", ![t].out = r]
       IN  turn(encode_fields(rec, <<Bitfield_fields(rec.cls)[tasks[t].i]>>,
                              tasks[t].ctx))
    /\ op' = "task"
    /\ UNCHANGED <<imported, cls_fields, schema, ctx, res, recFrom, buf, bufFrom,
                   hasBuf, muts, perm, kept>>

(* to_bits, its last statement: return acc.unreorder(self._reorder) *)
TaskReturn(t) ==
    /\ tasks # <<>>
    /\ tasks[t].pc = "fields"
    /\ tasks[t].i > Len(Bitfield_fields(rec.cls))
    /\ tasks' = [tasks EXCEPT
                     ![t].pc = "done",
                     ![t].out = Bits_unreorder(tasks[t].acc, Bitfield_reorder(rec.cls))]
    /\ op' = "task"
    /\ UNCHANGED <<imported, cls_fields, schema, ctx, res, rec, recFrom, buf, bufFrom,
                   hasBuf, muts, perm, kept>>

NextTasks ==
    \/ DefineClass
    \/ ShareRecord
    \/ \E t \in Tasks : TaskBegin(t)
    \/ \E t \in Tasks : TaskField(t)
    \/ \E t \in Tasks : TaskReturn(t)

SpecTasks == Init /\ [][NextTasks]_vars

---------------------------------------------------------------------------
(* PackedBits (packedbits.py): records of fixed-length fields *)

PBSchemas == {"PBPlain", "PBDefault", "PBOuter"}

(* cls._pb_fields, as __init_subclass__ builds it from the class body: for
   each field its name, the type of its hint (int, bool, a Literal, a
   PackedBits class), the n of bitfield(n, default) and the default, None
   when there is none.
     class PBPlain(PackedBits):   a: int = bitfield(3);  b: int = bitfield(5)
     class PBDefault(PackedBits): x: int = bitfield(4, default=3)
                                  flag: bool = bitfield(1)
                                  pad: Literal[0] = bitfield(3, default=0)
     class PBOuter(PackedBits):   inner: PBPlain = bitfield(8)
                                  n: int = bitfield(4) *)
PB_fields(cls) ==
    LET PBField(name, field_type, n, default) ==
            [name |-> name, field_type |-> field_type, n |-> n, default |-> default]
        PBInt == [k |-> "int"]
        PBBool == [k |-> "bool"]
        PBLiteral(value) == [k |-> "lit", value |-> value]
        PBClass(c) == [k |-> "pb", cls |-> c]
    IN  CASE cls = "PBPlain" ->
                << PBField("a", PBInt, 3, NoneV), PBField("b", PBInt, 5, NoneV) >>
          [] cls = "PBDefault" ->
                << PBField("x", PBInt, 4, IntV(3)),
                   PBField("flag", PBBool, 1, NoneV),
                   PBField("pad", PBLiteral(IntV(0)), 3, IntV(0)) >>
          [] cls = "PBOuter" ->
                << PBField("inner", PBClass("PBPlain"), 8, NoneV),
                   PBField("n", PBInt, 4, NoneV) >>

PB_names(cls) == {PB_fields(cls)[i].name : i \in 1..Len(PB_fields(cls))}

(* The integer an int or bool value is. *)
PB_int(value) == IF value.t = "bool" THEN (IF value.v THEN 1 ELSE 0) ELSE value.v[1]

(* PackedBits.__init__: a field without a default takes the keyword value
   and raises TypeError without one; a field with a default takes the
   default. *)
PB_init(cls, kwargs) ==
    LET fields == PB_fields(cls)
        missing == {i \in 1..Len(fields) :
                       fields[i].default = NoneV /\ fields[i].name \notin DOMAIN kwargs}
    IN  IF missing # {} THEN Raise("MissingValue", "TypeError")
        ELSE Ok(Instance(cls,
                    [n \in PB_names(cls) |->
                        LET f == fields[CHOOSE i \in 1..Len(fields) : fields[i].name = n]
                        IN  IF f.default = NoneV THEN kwargs[n] ELSE f.default]),
                NoneV)

(* a == b of two values held by PackedBits fields, and PackedBits.__eq__ *)
RECURSIVE PB_eq(_, _)
PB_eq(a, b) ==
    IF a.t = "rec"
    THEN /\ b.t = "rec"
         /\ b.cls = a.cls
         /\ \A n \in PB_names(a.cls) : PB_eq(a.v[n], b.v[n])
    ELSE IF a.t \in {"int", "bool"} /\ b.t \in {"int", "bool"}
         THEN PB_int(a) = PB_int(b)
    ELSE a.t = b.t /\ a.v = b.v

(* PackedBits.to_bitarray: the bits, or the exception raised. *)
RECURSIVE PB_to_bitarray(_)
PB_to_bitarray(self) ==
    LET fields == PB_fields(self.cls)
        isinstance(value, ft) ==
            CASE ft.k = "int" -> value.t \in {"int", "bool"}
              [] ft.k = "bool" -> value.t = "bool"
              [] ft.k = "pb" -> value.t = "rec" /\ value.cls = ft.cls
        nested(f, r) ==
            IF ~r.ok THEN r
            ELSE IF Len(r.val) # f.n THEN Raise("WidthMismatch", "ValueError")
            ELSE r
        bits(f, value) ==
            CASE value.t = "rec" -> nested(f, PB_to_bitarray(value))
              [] value.t \in {"str", "bytes"} ->
                    Raise("NotImplemented", "NotImplementedError")
              [] value.t \in {"int", "bool"} ->
                    IF PB_int(value) >= 2 ^ f.n
                    THEN Raise("ValueOutOfRange", "ValueError")
                    ELSE Ok(NatToBits(PB_int(value), f.n), NoneV)
              [] OTHER -> Raise("NotANumber", "TypeError")
        field(f, value) ==
            IF f.field_type.k = "lit" /\ ~PB_eq(f.field_type.value, value)
            THEN Raise("LiteralMismatch", "ValueError")
            ELSE IF f.field_type.k # "lit" /\ ~isinstance(value, f.field_type)
                 THEN Raise("Discriminator", "TypeError")
            ELSE bits(f, value)
        add(acc, r) == IF r.ok THEN Ok(acc.val \o r.val, NoneV) ELSE r
        upto[i \in 0..Len(fields)] ==
            IF i = 0 THEN Ok(<<>>, NoneV)
            ELSE IF ~upto[i - 1].ok THEN upto[i - 1]
            ELSE add(upto[i - 1], field(fields[i], self.v[fields[i].name]))
    IN  upto[Len(fields)]

(* PackedBits.from_bitarray: the record, or the exception raised. Reading
   bitarray[cursor] past the end raises IndexError; a slice past the end is
   shorter. *)
RECURSIVE PB_from_bitarray(_, _)
PB_from_bitarray(cls, bitarray) ==
    LET fields == PB_fields(cls)
        slice(from, n) ==
            SubSeq(bitarray, from + 1,
                   IF from + n > Len(bitarray) THEN Len(bitarray) ELSE from + n)
        number(f, cursor) ==
            IF cursor + f.n > Len(bitarray) THEN Raise("ShortBuffer", "IndexError")
            ELSE LET int_value == BitsToNat(slice(cursor, f.n))
                 IN  IF f.field_type.k = "bool" THEN Ok(BoolV(int_value # 0), NoneV)
                     ELSE Ok(IntV(int_value), NoneV)
        value(f, cursor) ==
            IF f.field_type.k = "pb"
            THEN PB_from_bitarray(f.field_type.cls, slice(cursor, f.n))
            ELSE number(f, cursor)
        checked(f, r) ==
            IF r.ok /\ f.field_type.k = "lit" /\ ~PB_eq(r.val, f.field_type.value)
            THEN Raise("LiteralMismatch", "ValueError")
            ELSE r
        put(i, acc, r) ==
            IF ~r.ok THEN r
            ELSE Ok((fields[i].name :> r.val) @@ acc.val, acc.rest + fields[i].n)
        upto[i \in 0..Len(fields)] ==
            IF i = 0 THEN Ok(<<>>, 0)
            ELSE IF ~upto[i - 1].ok THEN upto[i - 1]
            ELSE put(i, upto[i - 1],
                     checked(fields[i], value(fields[i], upto[i - 1].rest)))
        built(r) ==
            IF ~r.ok THEN r
            ELSE IF r.rest # Len(bitarray) THEN Raise("LeftoverBits", "ValueError")
            ELSE PB_init(cls, r.val)
    IN  built(upto[Len(fields)])

(* The keyword arguments of the constructor calls. *)
PBKwargsOf(cls) ==
    CASE cls = "PBPlain" ->
            {[a |-> IntV(x), b |-> IntV(y)] : x \in {0, 5, 8}, y \in {9, 31}}
                \cup {[a |-> IntV(5)], [a |-> BoolV(TRUE), b |-> StrV(<<75>>)]}
      [] cls = "PBDefault" ->
            {[flag |-> BoolV(b)] : b \in BOOLEAN}
                \cup {[x |-> IntV(x), flag |-> BoolV(b)] : x \in {3, 5, 12}, b \in BOOLEAN}
                \cup {[x |-> IntV(5), flag |-> BoolV(TRUE), pad |-> IntV(1)],
                      [x |-> IntV(5), flag |-> IntV(1)]}
      [] cls = "PBOuter" ->
            {[inner |-> Instance("PBPlain", [a |-> IntV(x), b |-> IntV(9)]),
              n |-> IntV(y)] : x \in {5, 8}, y \in {2, 16}}
                \cup {[inner |-> IntV(5), n |-> IntV(2)],
                      [inner |-> Instance("PBDefault",
                                     [x |-> IntV(3), flag |-> BoolV(TRUE),
                                      pad |-> IntV(0)]),
                        n |-> IntV(2)]}

(* The keyword arguments of a call, kept beside the record it made. *)
Kwargs(kwargs) == [t |-> "kwargs", v |-> kwargs]

(* S(kwargs) for a PackedBits class S *)
PBConstruct ==
    /\ \E S \in PBSchemas : \E kwargs \in PBKwargsOf(S) :
          LET made(r) ==
                  /\ res' = r
                  /\ rec' = IF r.ok THEN r.val ELSE NoneV
                  /\ kept' = Kwargs(kwargs)
          IN  made(PB_init(S, kwargs)) /\ schema' = S
    /\ op' = "pb_init"
    /\ buf' = <<>>
    /\ bufFrom' = NoneV
    /\ UNCHANGED <<imported, cls_fields, ctx, recFrom, hasBuf, muts, perm, tasks>>

(* rec.to_bitarray() *)
PBEncode ==
    /\ op = "pb_init" /\ res.ok
    /\ LET done(r) ==
               /\ res' = r
               /\ buf' = IF r.ok THEN r.val ELSE <<>>
               /\ bufFrom' = IF r.ok THEN rec ELSE NoneV
       IN  done(PB_to_bitarray(rec))
    /\ op' = "pb_to_bitarray"
    /\ UNCHANGED <<imported, cls_fields, schema, ctx, rec, recFrom, hasBuf, muts,
                   perm, kept, tasks>>

(* The bit arrays a caller decodes after an encoding: the encoding itself,
   the encoding with one bit flipped, without its last bit, or with one
   more bit. *)
PBArrays(b) ==
    {b, Append(b, 0)}
        \cup {[b EXCEPT ![i] = 1 - b[i]] : i \in 1..Len(b)}
        \cup {SubSeq(b, 1, Len(b) - 1)}

(* S.from_bitarray(b) *)
PBDecode ==
    /\ op = "pb_to_bitarray" /\ res.ok
    /\ \E b \in PBArrays(buf) :
          LET done(r) ==
                  /\ res' = r
                  /\ rec' = IF r.ok THEN r.val ELSE NoneV
                  /\ buf' = b
                  /\ bufFrom' = IF b = buf THEN bufFrom ELSE NoneV
          IN  done(PB_from_bitarray(schema, b))
    /\ op' = "pb_from_bitarray"
    /\ UNCHANGED <<imported, cls_fields, schema, ctx, recFrom, hasBuf, muts, perm,
                   kept, tasks>>

NextPacked ==
    \/ PBConstruct
    \/ PBEncode
    \/ PBDecode

SpecPacked == Init /\ [][NextPacked]_vars

---------------------------------------------------------------------------
(* The claims *)

(* S.length() is an integer: S has no field of dynamic length. *)
Static(S) == Bitfield_length(S) # LenNone

(* The buffer in hand is x.to_bits() of the record x = bufFrom, and
   S.from_bits was just applied to it, S the schema of x, with the context
   x was encoded with. *)
DecodedOwnEncoding ==
    /\ op = "from_bits"
    /\ bufFrom # NoneV
    /\ schema = bufFrom.cls
    /\ ctx = bufFrom.v["bitfield_context"]

(* C1: value round trip. Whenever x.to_bits() succeeded, S.from_bits of the
   result succeeds and returns a record equal to x. *)
C1_ValueRoundTrip ==
    DecodedOwnEncoding => res.ok /\ PyEq(res.val, bufFrom)

(* The record in hand was returned by S.from_bits(b), b = recFrom, S is of
   static length, and to_bits was just applied to the record. *)
EncodedOwnDecoding ==
    /\ op = "to_bits"
    /\ recFrom # NoneV
    /\ Static(schema)

(* C2: bit round trip. Whenever S.from_bits(b) succeeded for a schema of
   static length, to_bits of the record succeeds and returns b bit for bit. *)
C2_BitRoundTrip ==
    EncodedOwnDecoding => res.ok /\ res.val = recFrom.v

(* C3: length agreement. When S.length() is an integer n, every successful
   x.to_bits() of an instance x of S has exactly n bits. *)
C3_LengthAgreement ==
    (op = "to_bits" /\ res.ok /\ Static(schema))
        => Len(res.val) = Bitfield_length(schema)

(* A successful to_bits of a schema with a list, a nested record, a literal
   and a reorder list, each. *)
C3_Witness ==
    /\ op = "to_bits" /\ res.ok /\ Static(schema)
    /\ schema = "BSSSettingsExt"
    /\ Len(res.val) = 400

(* C4, as stated: reorder(P) and unreorder(P) keep the length of the buffer,
   and applying one and then the other gives the buffer back, for every
   list P, the list of BSSSettingsExt included. *)
C4_ReorderInvolution ==
    /\ (op \in {"reorder", "unreorder"} /\ res.ok) => Len(buf) = Len(perm.orig)
    /\ perm.step = 2 => buf = perm.orig

(* C4, amended: reorder(P) and unreorder(P) keep the length of the buffer
   for every list P whose entries index the buffer, and applying one and
   then the other, in either order, gives the buffer back when P is a
   permutation of 0..len(P)-1. *)
C4_ReorderInvolutionOfPermutations ==
    /\ (op \in {"reorder", "unreorder"} /\ res.ok) => Len(buf) = Len(perm.orig)
    /\ (perm.step = 2 /\ IsPermutation(perm.P)) => buf = perm.orig

(* unreorder(P) after reorder(P) gave back a buffer that the 3-cycle P
   does not leave alone. *)
C4_Witness ==
    /\ perm.step = 2 /\ perm.first = "reorder" /\ op = "unreorder"
    /\ perm.P = <<1, 2, 0>>
    /\ perm.orig[1] # perm.orig[2]
    /\ buf = perm.orig

(* The concatenation of the field encodings of the record in hand, in
   declaration order: what to_bits holds before it calls unreorder. *)
DeclarationOrderBits == encode_fields(rec, Bitfield_fields(rec.cls), ctx).val

(* The record in hand was just encoded with success. *)
JustEncoded == op = "to_bits" /\ res.ok

(* C5, as stated: bit i of x.to_bits() is the declaration-order bit P[i] for
   i < len(P) and the declaration-order bit i for i >= len(P). *)
C5_WireBitIsDeclaredBitAtP ==
    JustEncoded =>
        LET P == Bitfield_reorder(schema)
            decl == DeclarationOrderBits
        IN  /\ Len(res.val) = Len(decl)
            /\ \A i \in 1..Len(decl) :
                  res.val[i] = IF i <= Len(P) THEN decl[P[i] + 1] ELSE decl[i]

(* C5, amended: for a schema whose list P is a permutation of 0..len(P)-1,
   bit P[i] of x.to_bits() is the declaration-order bit i for i < len(P),
   and bit i is the declaration-order bit i for i >= len(P); for a schema
   without a list the two bit strings are the same. *)
C5_WireBitAtPIsDeclaredBit ==
    JustEncoded =>
        LET P == Bitfield_reorder(schema)
            decl == DeclarationOrderBits
        IN  /\ Len(res.val) = Len(decl)
            /\ P = <<>> => res.val = decl
            /\ IsPermutation(P) =>
                  \A i \in 1..Len(decl) :
                      IF i <= Len(P) THEN res.val[P[i] + 1] = decl[i]
                      ELSE res.val[i] = decl[i]

(* An encoded record of the schema with the 3-cycle: its three reordered
   bits are not all the same, so the order shows. *)
C5_Witness ==
    /\ JustEncoded /\ schema = "Perm"
    /\ Bitfield_reorder(schema) = <<1, 2, 0>>
    /\ res.val[1] # res.val[2]
    /\ res.val # DeclarationOrderBits

(* The positions of the literal fields among the fields of schema S. *)
LitFields(S) ==
    {i \in 1..Len(Bitfield_fields(S)) : Bitfield_fields(S)[i].field.k = "Lit"}

(* Record x holds, at a literal field, a value other than the literal's
   default. *)
OffLiteral(x) ==
    \E i \in LitFields(x.cls) :
        LET f == Bitfield_fields(x.cls)[i]
        IN  ~PyEq(x.v[f.name], f.field.default)

(* Record x, or a record held by a field of x, is off a literal. *)
HoldsOffLiteral(x) ==
    \/ OffLiteral(x)
    \/ \E n \in (DOMAIN x.v) \ {"bitfield_context"} :
          is_bitfield(x.v[n]) /\ OffLiteral(x.v[n])

(* C6, as stated: no record obtained from the constructor holds, at a
   literal field, a value other than the literal's default. *)
C6_ConstructorKeepsLiterals ==
    (op = "init" /\ res.ok) => ~OffLiteral(rec)

(* The offset, in declaration order, of field i of schema S, when every
   field before it has a static length. *)
FieldOffset(S, i) ==
    LET fields == Bitfield_fields(S)
        lens == [j \in 1..(i - 1) |-> bftype_length(fields[j].field)]
        sum[j \in 0..(i - 1)] == IF j = 0 THEN 0 ELSE sum[j - 1] + lens[j]
    IN  IF \E j \in 1..(i - 1) : lens[j] = LenNone THEN LenNone ELSE sum[i - 1]

(* The literal fields of S that sit at a static offset inside a buffer of
   n bits, S a schema without a reorder list. *)
LitFieldsWithin(S, n) ==
    IF Bitfield_reorder(S) # <<>> THEN {}
    ELSE {i \in LitFields(S) :
            /\ FieldOffset(S, i) # LenNone
            /\ FieldOffset(S, i) + bftype_length(Bitfield_fields(S)[i].field) <= n}

(* C7: to_bits fails, and returns no bits, when the record holds at a literal
   field a value other than the default, and otherwise the bits of a literal
   field are the default's encoding by the inner descriptor; from_bits fails,
   and returns no record, when the inner descriptor decodes another value
   than the default at a literal field, and a record it returns holds the
   default there. *)
C7_LiteralsAtEncodeAndDecode ==
    /\ (op = "to_bits" /\ HoldsOffLiteral(rec)) => (~res.ok /\ res.val = NoneV)
    /\ JustEncoded =>
          \A i \in LitFieldsWithin(schema, Len(res.val)) :
              LET f == Bitfield_fields(schema)[i].field
                  off == FieldOffset(schema, i)
              IN  SubSeq(res.val, off + 1, off + bftype_length(f))
                      = bftype_to_bits(f.inner, f.default, rec, ctx).val
    /\ op = "from_bits" =>
          /\ res.ok => ~HoldsOffLiteral(res.val)
          /\ \A i \in LitFieldsWithin(schema, Len(buf)) :
                LET f == Bitfield_fields(schema)[i]
                    at == [bits |-> buf, pos |-> FieldOffset(schema, i)]
                    read == bftype_from_bitstream(f.field.inner, at,
                                                  [n \in {} |-> NoneV], ctx)
                IN  IF read.ok /\ ~PyEq(read.val, f.field.default)
                    THEN ~res.ok /\ res.val = NoneV
                    ELSE res.ok => PyEq(res.val.v[f.name], f.field.default)

(* A buffer whose literal bit is not the default's was refused by
   ChannelSettings.from_bits. *)
C7_Witness ==
    /\ op = "from_bits" /\ ~res.ok /\ res.kind = "LiteralMismatch"
    /\ schema = "ChannelSettings"
    /\ LitFieldsWithin(schema, Len(buf)) # {}

(* S.from_bits was just applied to a buffer shorter than S.length(), S a
   schema of static length. *)
DecodedShortBuffer ==
    /\ op = "from_bits"
    /\ Static(schema)
    /\ Len(buf) < Bitfield_length(schema)

(* C8, as stated: from_bits of a buffer shorter than the static length of
   the schema fails with the short-buffer error and returns no record,
   whatever the buffer holds. *)
C8_ShortBufferIsShortBufferError ==
    DecodedShortBuffer =>
        ~res.ok /\ res.val = NoneV /\ res.kind = "ShortBuffer"

(* The buffer in hand, filled with zeros up to the static length of the
   schema, decoded by the schema. *)
DecodedWhenFilled ==
    Bitfield_from_bits(schema,
                       buf \o Zeros(Bitfield_length(schema) - Len(buf)), ctx)

(* C8, amended: from_bits of a buffer shorter than the static length of the
   schema fails and returns no record; the error is the short-buffer error
   unless an earlier step fails first: the reorder of a buffer that the
   schema's list does not fit, or a field that lies inside the buffer and
   fails (a literal, a mapper, a nested record with bits left over), the
   same failure as for the filled buffer. *)
C8_ShortBufferFails ==
    DecodedShortBuffer =>
        /\ ~res.ok /\ res.val = NoneV
        /\ \/ res.kind = "ShortBuffer"
           \/ /\ res.kind = "Reorder"
              /\ ~ReorderFits(buf, Bitfield_reorder(schema))
           \/ /\ res.kind \notin {"ShortBuffer", "Reorder"}
              /\ ~DecodedWhenFilled.ok
              /\ DecodedWhenFilled.kind = res.kind
              /\ DecodedWhenFilled.trace = res.trace

(* A short buffer refused for the read that exceeds it, its earlier literal
   field being in order. *)
C8_Witness ==
    /\ DecodedShortBuffer /\ ~res.ok /\ res.kind = "ShortBuffer"
    /\ schema = "ChannelSettings"
    /\ Len(buf) > 0

(* S.from_bitstream of the buffer in hand, read from its first bit. *)
StreamDecoded == Bitfield_from_bitstream(schema, BitStream(buf), ctx)

(* The nested-record fields of S that sit at a static offset inside a buffer
   of n bits, S a schema without a reorder list. *)
RecordFieldsWithin(S, n) ==
    IF Bitfield_reorder(S) # <<>> THEN {}
    ELSE {i \in 1..Len(Bitfield_fields(S)) :
            /\ Bitfield_fields(S)[i].field.k = "Bitfield"
            /\ FieldOffset(S, i) # LenNone
            /\ FieldOffset(S, i) + Bitfield_fields(S)[i].field.n <= n}

(* C9: from_bits returns a record only if decoding the fields consumed every
   bit of the buffer, and fails with the leftover-bits error when the fields
   decode and bits remain; the n bits of a nested record field must be
   consumed entirely by its schema, or the enclosing from_bits fails; and
   from_bitstream returns the record with the stream as the fields left it,
   bits remaining or not. *)
C9_ExactConsumption ==
    /\ op = "from_bits" =>
          /\ res.ok => /\ StreamDecoded.ok
                       /\ remaining(StreamDecoded.rest) = 0
                       /\ StreamDecoded.val = res.val
          /\ (StreamDecoded.ok /\ remaining(StreamDecoded.rest) # 0)
                => (~res.ok /\ res.val = NoneV /\ res.kind = "LeftoverBits")
          /\ \A i \in RecordFieldsWithin(schema, Len(buf)) :
                LET f == Bitfield_fields(schema)[i].field
                    off == FieldOffset(schema, i)
                    inner == Bitfield_from_bitstream(
                                 f.inner,
                                 BitStream(SubSeq(buf, off + 1, off + f.n)), ctx)
                IN  (inner.ok /\ remaining(inner.rest) # 0) => ~res.ok
    /\ (op = "from_bitstream" /\ res.ok) =>
          /\ is_bitfield(res.val)
          /\ res.rest.bits = (IF Bitfield_reorder(schema) = <<>> THEN buf
                              ELSE Bits_reorder(buf, Bitfield_reorder(schema)).val)
          /\ Static(schema) => res.rest.pos = Bitfield_length(schema)

(* from_bits refused, for the bits left over, a buffer that from_bitstream
   decodes. *)
C9_Witness ==
    /\ op = "from_bits" /\ ~res.ok /\ res.kind = "LeftoverBits"
    /\ res.trace = <<>>
    /\ StreamDecoded.ok /\ remaining(StreamDecoded.rest) > 0

(* The two records compared last, left operand first. *)
Compared ==
    IF op = "eq" THEN <<rec, kept>> ELSE <<kept, rec>>

(* C10: a == b is true only if a and b are records of the same schema whose
   declared fields all compare equal, and a == b is false, in both orders,
   for records of two different schemas, a schema and its extension
   included. *)
C10_EqualityIsSchemaSensitive ==
    op \in {"eq", "eq_swapped"} =>
        LET a == Compared[1]
            b == Compared[2]
        IN  /\ res.val = BoolV(TRUE) =>
                  /\ a.cls = b.cls
                  /\ \A n \in FieldNames(a.cls) : PyEq(a.v[n], b.v[n])
            /\ a.cls # b.cls =>
                  /\ res.val = BoolV(FALSE)
                  /\ ~PyEq(a, b) /\ ~PyEq(b, a)

(* A ChannelSettings compared with a ChannelSettingsDMR that agrees with it
   on every field of ChannelSettings: not equal. *)
C10_Witness ==
    /\ op = "eq" /\ res.val = BoolV(FALSE)
    /\ rec.cls = "ChannelSettings" /\ kept.cls = "ChannelSettingsDMR"
    /\ \A n \in FieldNames("ChannelSettings") : PyEq(rec.v[n], kept.v[n])

(* A descriptor nested in bftype, at any depth, carries a default and is
   not a literal. *)
RECURSIVE NestedDefaultOffLiteral(_)
NestedDefaultOffLiteral(bftype) ==
    /\ bftype.k \in {"List", "Map", "Lit"}
    /\ \/ bftype.inner.k # "Lit" /\ is_provided(bftype.inner.default)
       \/ NestedDefaultOffLiteral(bftype.inner)

(* C11, as stated: a class statement is rejected, with the schema definition
   error, exactly when one of its declarations nests a descriptor that is
   not a literal and carries a default; a declaration that nests a literal
   is accepted. *)
C11_NestedDefaultsRejectedButLiterals ==
    op = "class" =>
        (~res.ok /\ res.kind = "SchemaDefinition")
            <=> \E i \in 1..Len(ClassBody(schema)) :
                    NestedDefaultOffLiteral(
                        distill_field(ClassBody(schema)[i].hint,
                                      ClassBody(schema)[i].value))

(* C12: when two tasks call to_bits on one record with different contexts
   and their steps interleave, each call that has ended gave what the same
   call gives alone on the record as it was handed over -- the same bits,
   or the same kind of failure -- and when both have ended the declared
   fields of the record are equal to what they were. *)
C12_ConcurrentEncodeAsAlone ==
    tasks # <<>> =>
        /\ \A t \in Tasks :
              tasks[t].pc = "done" =>
                  LET same(a, b) ==
                          /\ a.ok = b.ok
                          /\ a.ok => a.val = b.val
                          /\ ~a.ok => a.kind = b.kind
                  IN  same(tasks[t].out, Bitfield_to_bits(kept, tasks[t].ctx))
        /\ (\A t \in Tasks : tasks[t].pc = "done") =>
              \A n \in FieldNames(rec.cls) : PyEq(rec.v[n], kept.v[n])

(* The schemas with a field of kind DynSelfN, that field, and the number of
   bits that the fields before it encode to. *)
DynNSchemas ==
    {"ReadRFChReplyBody", "WriteRFChBody", "ReadBSSSettingsReplyBody",
     "WriteBSSSettingsBody"}

DynNField(S) ==
    CASE S \in {"ReadRFChReplyBody", "WriteRFChBody"} -> "channel_settings"
      [] OTHER -> "bss_settings"

DynNOffset(S) ==
    IF S \in {"ReadRFChReplyBody", "ReadBSSSettingsReplyBody"} THEN 8 ELSE 0

(* The bytes of a str or bytes value. *)
BytesOf(value) == IF value.t = "str" THEN Utf8Encode(value.v) ELSE value.v

(* to_bits was just called on a record of a schema with a DynSelfN field. *)
EncodedDynN == op = "to_bits" /\ rec.cls \in DynNSchemas

(* C13: what to_bits makes of a DynSelfN field depends on the value alone.
   A record value of a class of static length gives the bits of its own
   to_bits, as many as that length; a record of a class of dynamic length
   makes to_bits fail with a TypeError; a str or bytes value gives its
   bytes, eight bits each; None gives no bits; any other value makes
   to_bits fail with the dynamic-dispatch TypeError.  The fields before it
   and what the discriminator would say play no part. *)
C13_DynNEncodeByValue ==
    EncodedDynN =>
        LET value == rec.v[DynNField(rec.cls)]
            off == DynNOffset(rec.cls)
            out == IF res.ok THEN SubSeq(res.val, off + 1, Len(res.val)) ELSE <<>>
            alone(own) ==
                IF own.ok
                THEN res.ok /\ out = own.val
                     /\ Len(out) = Bitfield_length(value.cls)
                ELSE ~res.ok
        IN  CASE is_bitfield(value) ->
                    IF Bitfield_length(value.cls) = LenNone
                    THEN ~res.ok /\ res.exc = "TypeError" /\ res.kind = "Undisguise"
                    ELSE alone(Bitfield_to_bits(value, ctx))
              [] value.t \in {"str", "bytes"} ->
                    /\ res.ok
                    /\ Len(out) = 8 * Len(BytesOf(value))
                    /\ \A j \in 1..Len(BytesOf(value)) :
                          BitsToNat(SubSeq(out, 8 * j - 7, 8 * j)) = BytesOf(value)[j]
              [] value = NoneV -> res.ok /\ out = <<>>
              [] OTHER ->
                    ~res.ok /\ res.exc = "TypeError" /\ res.kind = "DynDispatch"

(* A str value with a character of two bytes was encoded in a DynSelfN
   field. *)
C13_Witness ==
    /\ EncodedDynN /\ res.ok
    /\ rec.v[DynNField(rec.cls)].t = "str"
    /\ Len(BytesOf(rec.v[DynNField(rec.cls)])) > Len(rec.v[DynNField(rec.cls)].v)

(* The first field of a decode that fails, with the failure as the
   descriptor interpreter raised it: name "" when every field decodes. *)
RECURSIVE FirstDecodeFailure(_, _, _, _)
FirstDecodeFailure(fields, stream, proxy, context) ==
    IF fields = <<>> THEN [name |-> "", raw |-> Nothing]
    ELSE LET step(r) ==
                 IF ~r.ok THEN [name |-> fields[1].name, raw |-> r]
                 ELSE FirstDecodeFailure(Tail(fields), r.rest,
                                         (fields[1].name :> r.val) @@ proxy, context)
         IN  step(bftype_from_bitstream(fields[1].field, stream, proxy, context))

(* The same for the from_bits call that was just made. *)
DecodeFailure ==
    LET from(s) ==
            IF ~s.ok THEN [name |-> "", raw |-> Nothing]
            ELSE FirstDecodeFailure(Bitfield_fields(schema), s.rest,
                                    ("bitfield_context" :> ctx), ctx)
    IN  from(BitStream_reorder(BitStream(buf), Bitfield_reorder(schema)))

(* The first field of the to_bits call just made that fails, with the
   failure as the descriptor interpreter raised it. *)
EncodeFailure ==
    LET fields == Bitfield_fields(rec.cls)
        raw(i) == bftype_to_bits(fields[i].field, rec.v[fields[i].name], rec, ctx)
        bad == {i \in 1..Len(fields) : ~raw(i).ok}
        first(i) == [name |-> fields[i].name, raw |-> raw(i)]
    IN  IF bad = {} THEN [name |-> "", raw |-> Nothing]
        ELSE first(CHOOSE i \in bad : \A j \in bad : i <= j)

(* The call fails as the field did: the same exception type and kind, and a
   message that names the field and the schema in front of what the field's
   own message names. *)
FailsAs(f, S) ==
    f.name # "" =>
        /\ ~res.ok
        /\ res.exc = f.raw.exc
        /\ res.kind = f.raw.kind
        /\ res.trace = <<[field |-> f.name, cls |-> S]>> \o f.raw.trace

(* C14: when a field fails to decode or to encode, from_bits or to_bits
   fails too, with an error of the type and kind of the field's failure,
   whose message names the field and its schema first and then what the
   failure inside names (the inner field and schema when the field is a
   nested record). *)
C14_FieldFailuresPropagate ==
    /\ op = "from_bits" => FailsAs(DecodeFailure, schema)
    /\ op = "to_bits" => FailsAs(EncodeFailure, rec.cls)

(* The fields of S of kind DynSelf. *)
DynSelfFields(S) ==
    {k \in 1..Len(Bitfield_fields(S)) : Bitfield_fields(S)[k].field.k = "DynSelf"}

(* The view from_bits holds when it reaches field k: the fields declared
   before k, as the record r has them, and the context. *)
ViewBefore(r, k, context) ==
    [n \in {Bitfield_fields(r.cls)[j].name : j \in 1..(k - 1)}
               \cup {"bitfield_context"} |->
        IF n = "bitfield_context" THEN context ELSE r.v[n]]

(* r.to_bits(ctx) was just called on a record r that from_bits(b, ctx)
   returns, b the buffer r was decoded from. *)
ReencodedDecoded ==
    /\ op = "to_bits" /\ recFrom # NoneV
    /\ LET same(d) == d.ok /\ \A n \in FieldNames(rec.cls) : d.val.v[n] = rec.v[n]
       IN  same(Bitfield_from_bits(rec.cls, recFrom.v, ctx))

(* C15: a DynSelf field resolves on encode as it did on decode. For a
   record r that from_bits(b, ctx) returned, the function of a DynSelf
   field k gives, on the view of the fields before k and the context, a
   descriptor under which the bits of b at k decode to r's value; in
   r.to_bits(ctx) the function gives the same descriptor on the whole
   record, and the call succeeds and puts the bits of b at k. *)
C15_DynSelfSymmetric ==
    ReencodedDecoded =>
        \A k \in DynSelfFields(rec.cls) :
            LET f == Bitfield_fields(rec.cls)[k]
                off == FieldOffset(rec.cls, k)
                onDecode == DynFn(f.field.fn, ViewBefore(rec, k, ctx), 0)
                onEncode == DynFn(f.field.fn, rec.v, 0)
                slot(n) == SubSeq(recFrom.v, off + 1, off + n)
                decodes(u, r) == r.ok /\ r.val = rec.v[f.name]
                                     /\ r.rest.pos = bftype_length(u)
                agree(u) ==
                    /\ ~IsBuildError(u)
                    /\ off + bftype_length(u) <= Len(recFrom.v)
                    /\ decodes(u, bftype_from_bitstream(
                                      u, BitStream(slot(bftype_length(u))),
                                      ViewBefore(rec, k, ctx), ctx))
                    /\ res.ok
                    /\ SubSeq(res.val, off + 1, off + bftype_length(u))
                           = slot(bftype_length(u))
            IN  /\ onDecode.ok
                /\ onEncode = onDecode
                /\ agree(undisguise(onDecode.val))

(* A record decoded with context 1, whose DynSelf field reads the context,
   was encoded again with context 1. *)
C15_Witness ==
    /\ ReencodedDecoded /\ res.ok
    /\ rec.cls = "CtxDyn" /\ ctx = IntV(1)

(* from_bits of a schema with the field bss_settings was just called and
   reached that field. *)
DecodedToBSSField ==
    /\ op = "from_bits"
    /\ schema \in {"ReadBSSSettingsReplyBody", "WriteBSSSettingsBody"}
    /\ DecodeFailure.name \in {"", "bss_settings"}

(* C16: the field bss_settings is decoded as the one of BSSSettings and
   BSSSettingsExt whose length is the number of bits not yet read when the
   field is reached, and decoding fails in the discriminator for any other
   number; the two lengths differ. *)
C16_BSSDispatchByRemaining ==
    /\ {"BSSSettings", "BSSSettingsExt"} \subseteq DOMAIN cls_fields =>
          Bitfield_length("BSSSettings") # Bitfield_length("BSSSettingsExt")
    /\ DecodedToBSSField =>
          LET off == DynNOffset(schema)
              n == Len(buf) - off
              as(direct) ==
                  /\ res.ok = direct.ok
                  /\ res.ok => rec.v["bss_settings"] = direct.val
                  /\ ~res.ok => res.kind = direct.kind
              decoded(S) ==
                  as(bftype_from_bitstream(
                         BFBitfield(S, Bitfield_length(S), NOT_PROVIDED),
                         [bits |-> buf, pos |-> off],
                         ("bitfield_context" :> ctx), ctx))
          IN  CASE n = Bitfield_length("BSSSettings") ->
                      decoded("BSSSettings")
                           /\ (res.ok => rec.v["bss_settings"].cls = "BSSSettings")
                [] n = Bitfield_length("BSSSettingsExt") ->
                      decoded("BSSSettingsExt")
                           /\ (res.ok => rec.v["bss_settings"].cls = "BSSSettingsExt")
                [] OTHER ->
                      ~res.ok /\ res.kind = "Discriminator" /\ res.exc = "ValueError"

(* A reply body was decoded whose bss_settings is a BSSSettingsExt. *)
C16_Witness ==
    /\ DecodedToBSSField /\ res.ok
    /\ schema = "ReadBSSSettingsReplyBody"
    /\ rec.v["bss_settings"].cls = "BSSSettingsExt"

(* Every field that decodes, of those that from_bitstream reaches, and whose
   descriptor has an integer length, moves the stream on by that length. *)
RECURSIVE FieldsAdvanceByLength(_, _, _, _)
FieldsAdvanceByLength(fields, stream, proxy, context) ==
    \/ fields = <<>>
    \/ LET L == bftype_length(fields[1].field)
           step(r) ==
               \/ ~r.ok
               \/ /\ L # LenNone =>
                        remaining(stream) - remaining(r.rest) = L
                  /\ FieldsAdvanceByLength(Tail(fields), r.rest,
                                           (fields[1].name :> r.val) @@ proxy,
                                           context)
       IN  step(bftype_from_bitstream(fields[1].field, stream, proxy, context))

(* from_bits or from_bitstream was just called on the buffer in hand. *)
JustDecoded == op \in {"from_bits", "from_bitstream"}

(* C18: a successful decode of a descriptor whose bftype_length is an
   integer L takes exactly L bits from the stream, and a successful
   from_bitstream of a schema of static length leaves the stream with
   S.length() bits fewer than it had. *)
C18_DecodeAdvancesByLength ==
    /\ JustDecoded =>
          LET from(s) ==
                  ~s.ok \/ FieldsAdvanceByLength(Bitfield_fields(schema), s.rest,
                                                 ("bitfield_context" :> ctx), ctx)
          IN  from(BitStream_reorder(BitStream(buf), Bitfield_reorder(schema)))
    /\ (op = "from_bitstream" /\ res.ok /\ Static(schema)) =>
          remaining(res.rest) = Len(buf) - Bitfield_length(schema)

(* from_bitstream returned a record of a schema of static length and left
   bits in the stream. *)
C18_Witness ==
    /\ op = "from_bitstream" /\ res.ok /\ Static(schema)
    /\ remaining(res.rest) > 0
    /\ Len(Bitfield_fields(schema)) > 1

(* The discriminator function of the DynSelfN field of S. *)
DynNFn(S) ==
    LET fields == Bitfield_fields(S)
        k == CHOOSE i \in 1..Len(fields) : fields[i].name = DynNField(S)
    IN  fields[k].field.fn

(* C19: to_bits of a record of one of the four body schemas agrees with the
   discriminator of its DynSelfN field. When to_bits succeeds, from_bits of
   the bits succeeds and returns an equal record; and to_bits succeeds only
   if the discriminator, given the record and the number of bits the field
   was encoded to, selects what the field holds: the class of a record
   value, None for None. *)
C19_DynNEncodeAgreesWithDiscriminator ==
    /\ (DecodedOwnEncoding /\ schema \in DynNSchemas) =>
          res.ok /\ PyEq(res.val, bufFrom)
    /\ (EncodedDynN /\ res.ok) =>
          LET value == rec.v[DynNField(rec.cls)]
              selects(d) ==
                  /\ d.ok
                  /\ d.val = IF is_bitfield(value) THEN ClassRef(value.cls) ELSE value
          IN  selects(DynFn(DynNFn(rec.cls), rec.v,
                            Len(res.val) - DynNOffset(rec.cls)))

(* The offset of field i of the PackedBits class S. *)
PBOffset(S, i) ==
    LET sum[j \in 0..(i - 1)] == IF j = 0 THEN 0 ELSE sum[j - 1] + PB_fields(S)[j].n
    IN  sum[i - 1]

(* C20: a PackedBits record holds, for every field, the keyword value when
   the constructor was given one and the declared default only when it was
   not; a record that from_bitarray returns holds, in every int or bool
   field, the value its bits denote; and from_bitarray of x.to_bitarray()
   returns a record equal to x. *)
C20_PackedBitsKeepsExplicitValues ==
    /\ (op = "pb_init" /\ res.ok) =>
          \A i \in 1..Len(PB_fields(schema)) :
              LET f == PB_fields(schema)[i]
              IN  rec.v[f.name] = IF f.name \in DOMAIN kept.v THEN kept.v[f.name]
                                  ELSE f.default
    /\ (op = "pb_from_bitarray" /\ res.ok) =>
          \A i \in 1..Len(PB_fields(schema)) :
              LET f == PB_fields(schema)[i]
                  denoted == BitsToNat(SubSeq(buf, PBOffset(schema, i) + 1,
                                              PBOffset(schema, i) + f.n))
              IN  f.field_type.k # "pb" => PB_int(rec.v[f.name]) = denoted
    /\ (op = "pb_from_bitarray" /\ bufFrom # NoneV) =>
          res.ok /\ PB_eq(res.val, bufFrom)

=============================================================================
